---- MODULE Spec2Model ----
(***************************************************************************)
(* Verification model of the KittenTTS real-time synthesis pipeline:       *)
(*   kittentts/utils.py            AudioBuffer, PerformanceProfiler,       *)
(*                                 TextChunker, ResourceMonitor            *)
(*   kittentts/realtime_engine.py  RealtimeKittenTTS, StreamingKittenTTS   *)
(*   kittentts/onnx_model.py       KittenTTS_1_Onnx.generate_batch         *)
(*   kittentts/example_usage.py    demo_performance_monitoring             *)
(*   final_example.py              save_audio_wav                          *)
(* Each component has its own specification (SpecBuffer, SpecCache,        *)
(* SpecTtl, SpecBlocking, SpecAlias, SpecStream, SpecPool, SpecInvalid,    *)
(* SpecTwice, SpecChunker, SpecStreamingTTS, SpecOneSession, SpecFollowed, *)
(* SpecLocked, SpecProfiled, SpecFramed, SpecDemo, SpecSlow, SpecMonitor,  *)
(* SpecWav); the variables of the components a specification does not      *)
(* exercise keep their initial value.                                      *)
(***************************************************************************)
EXTENDS Integers, Sequences, FiniteSets, TLC

VARIABLES
    \* ---- AudioBuffer (utils.py) ----
    size, buffer, write_pos, read_pos, available_samples,
    buf_op, write_arg, write_ret, read_arg, read_ret,   \* last call, its input and result
    accepted, delivered,                                \* history: samples accepted / handed out
    \* ---- RealtimeKittenTTS (realtime_engine.py) ----
    audio_cache,                                        \* insertion-ordered dict: seq of [key, audio]
    active_timers, timings,                             \* PerformanceProfiler
    fast_pc, fast_req, fast_audio, fast_ret,            \* one generate_fast call per thread
    calls_made,
    now, stored_at,                                     \* wall clock; time each cache key was last stored
    heap, held,                                         \* arrays by identity; the arrays callers hold
    \* ---- generate_streaming ----
    chunks, max_workers, gen_pc, gen_i, futures, completed, gen_pos,
    yielded, timed_out,
    gen_voice, gen_speed,                               \* arguments of the streaming call
    gen_round, first_yielded,                           \* which call of a repeated request; what the first yielded
    \* ---- TextChunker (utils.py), _split_text_for_streaming (realtime_engine.py) ----
    input_text, input_max, chunker_op, chunker_out,     \* the text, the maximum, the call, its result
    \* ---- KittenTTS_1_Onnx.generate_batch (onnx_model.py) ----
    texts, batch_workers, batch_pc, batch_job, batch_i, batch_results, batch_ret,
    batch_order,                                        \* history: jobs in the order they finished
    \* ---- StreamingKittenTTS (realtime_engine.py) ----
    is_streaming, playback_queue,                       \* the Event and the bounded Queue of one instance
    worker_pc, worker_chunk, all_audio, jobs,           \* one streaming_worker thread per request
    consumer_pc, received,                              \* one get_audio_chunks generator per consumer
    stops, after_stop,                                  \* history: stop_streaming calls; chunks queued since
    output_file, saved_file,                            \* per request: is a file named; what sf.write left in it
    \* ---- the locks of generate_fast: _cache_lock, the profiler's _lock ----
    cache_lock, profiler_lock,                          \* the thread that holds the lock, or None
    \* ---- PerformanceProfiler (utils.py), with its durations ----
    profiler_max_samples, profiler_active_timers, profiler_timings,
    profiler_time, profiler_recorded,                   \* time.time(); history: every duration appended
    \* ---- AdaptiveQualityManager and its caller (example_usage.py) ----
    current_quality, latency_history, demo_pc, demo_runs,
    \* ---- ResourceMonitor (utils.py) ----
    available, monitoring, monitor_thread,              \* available, _monitoring, _monitor_thread
    resource_history, monitor_loops,                    \* _resource_history; the threads still in _monitor_loop
    monitor_op, monitor_calls,                          \* the last call; calls made so far
    \* ---- save_audio_wav (final_example.py) and a stream of encoded chunks ----
    wav_chunks,                                         \* the audio, as the chunks it was rendered in
    wav_file, wav_ret,                                  \* bytes of output/<filename>; what the call returned
    wav_stream, wav_sent,                               \* bytes sent on the stream; chunks sent so far
    \* ---- PerformanceProfiler: its counters, and the call made last ----
    profiler_counters, profiler_call

bufVars    == <<size, buffer, write_pos, read_pos, available_samples,
                buf_op, write_arg, write_ret, read_arg, read_ret, accepted, delivered>>
engineVars == <<audio_cache, active_timers, timings,
                fast_pc, fast_req, fast_audio, fast_ret, calls_made>>
genVars    == <<chunks, max_workers, gen_pc, gen_i, futures, completed, gen_pos,
                yielded, timed_out>>
batchVars  == <<texts, batch_workers, batch_pc, batch_job, batch_order, batch_i,
                batch_results, batch_ret>>
clockVars  == <<now, stored_at>>
aliasVars  == <<heap, held>>
repeatVars == <<gen_round, first_yielded>>
argVars    == <<gen_voice, gen_speed>>
chunkerVars == <<input_text, input_max, chunker_op, chunker_out>>
lockVars   == <<cache_lock, profiler_lock>>
profVars   == <<profiler_max_samples, profiler_active_timers, profiler_timings,
                profiler_time, profiler_recorded>>
qualityVars == <<current_quality, latency_history, demo_pc, demo_runs>>
playVars   == <<is_streaming, playback_queue, worker_pc, worker_chunk, all_audio, jobs,
                consumer_pc, received, stops, after_stop, output_file, saved_file>>
monVars    == <<available, monitoring, monitor_thread, resource_history, monitor_loops,
                monitor_op, monitor_calls>>
wavVars    == <<wav_chunks, wav_file, wav_ret, wav_stream, wav_sent>>
callVars   == <<profiler_counters, profiler_call>>
vars       == <<bufVars, engineVars, genVars, batchVars, clockVars, aliasVars, repeatVars, argVars, chunkerVars, playVars, lockVars, profVars, qualityVars, monVars, wavVars, callVars>>

Min(a, b) == IF a <= b THEN a ELSE b

RECURSIVE SeqsUpTo(_, _)
\* all sequences over S of length 0..n
SeqsUpTo(S, n) == IF n = 0 THEN {<<>>}
                  ELSE LET shorter == SeqsUpTo(S, n - 1)
                       IN  shorter \cup {Append(s, x) : s \in {q \in shorter : Len(q) = n - 1}, x \in S}

IsPrefix(s, t) == Len(s) <= Len(t) /\ SubSeq(t, 1, Len(s)) = s

(***************************************************************************)
(* AudioBuffer                                                             *)
(***************************************************************************)
MaxSize     == 3      \* largest capacity explored
MaxWriteLen == 4      \* longest write() input (exceeds MaxSize: overflow happens)
MaxHistory  == 4      \* writes stop once this many samples were accepted since clear()
Samples     == {1, 2} \* float32 sample values, distinct from the 0 of np.zeros

\* np.zeros(size, dtype=np.float32)
Zeros(n) == [i \in 0 .. n - 1 |-> 0]

\* as SliceAssign, but the second part of a split write is copied from the start
\* of the input again
SliceAssign_from_start(buf, lo, hi, src, from) ==
    [i \in DOMAIN buf |-> IF lo <= i /\ i < hi THEN src[(i - lo) + 1] ELSE buf[i]]

\* buf[lo:hi] = src[from:from + (hi - lo)]   (buf 0-based, src a 1-based sequence)
SliceAssign(buf, lo, hi, src, from) ==
    [i \in DOMAIN buf |-> IF lo <= i /\ i < hi THEN src[from + (i - lo) + 1] ELSE buf[i]]

\* buf[lo:hi] as a sequence
Slice(buf, lo, hi) == [k \in 1 .. hi - lo |-> buf[lo + k - 1]]

\* the samples held, oldest first
Content == [k \in 1 .. available_samples |-> buffer[(read_pos + k - 1) % size]]

InitAudioBuffer ==
    /\ size \in 0 .. MaxSize
    /\ buffer = Zeros(size)
    /\ write_pos = 0
    /\ read_pos = 0
    /\ available_samples = 0
    /\ buf_op = "init"
    /\ write_arg = <<>> /\ write_ret = 0
    /\ read_arg = 0 /\ read_ret = <<>>
    /\ accepted = <<>> /\ delivered = <<>>

\* as samples_to_write, clamped to the capacity instead of the free space
samples_to_write_to_capacity(audio_data) == Min(Len(audio_data), size)

\* samples_to_write = min(len(audio_data), self.size - self.available_samples)
samples_to_write(audio_data) == Min(Len(audio_data), size - available_samples)

\* samples_to_read = min(num_samples, self.available_samples)
samples_to_read(num_samples) == Min(num_samples, available_samples)

\* AudioBuffer.write; the input is a flat float32 array, on which
\* flatten().astype(np.float32) changes neither values nor length
write(audio_data) ==
    LET to_write   == samples_to_write(audio_data)
        first_part == size - write_pos
    IN  /\ buf_op' = "write" /\ write_arg' = audio_data
        /\ read_arg' = 0 /\ read_ret' = <<>>
        /\ UNCHANGED <<size, read_pos, delivered>>
        /\ IF to_write <= 0
           THEN /\ write_ret' = 0
                /\ UNCHANGED <<buffer, write_pos, available_samples, accepted>>
           ELSE /\ buffer' = IF write_pos + to_write <= size
                             THEN SliceAssign(buffer, write_pos, write_pos + to_write,
                                              audio_data, 0)
                             ELSE SliceAssign(
                                      SliceAssign(buffer, write_pos, size, audio_data, 0),
                                      0, to_write - first_part, audio_data, first_part)
                /\ write_pos' = (write_pos + to_write) % size
                /\ available_samples' = available_samples + to_write
                /\ write_ret' = to_write
                /\ accepted' = accepted \o SubSeq(audio_data, 1, to_write)

\* as read, without self.available_samples -= samples_to_read
read_keeps_count(num_samples) ==
    LET to_read    == samples_to_read(num_samples)
        first_part == size - read_pos
    IN  /\ buf_op' = "read" /\ read_arg' = num_samples
        /\ write_arg' = <<>> /\ write_ret' = 0
        /\ UNCHANGED <<size, buffer, write_pos, accepted>>
        /\ IF to_read <= 0
           THEN /\ read_ret' = <<>>
                /\ UNCHANGED <<read_pos, available_samples, delivered>>
           ELSE /\ read_ret' = IF read_pos + to_read <= size
                               THEN Slice(buffer, read_pos, read_pos + to_read)
                               ELSE Slice(buffer, read_pos, size)
                                    \o Slice(buffer, 0, to_read - first_part)
                /\ read_pos' = (read_pos + to_read) % size
                /\ UNCHANGED available_samples
                /\ delivered' = delivered \o read_ret'

\* AudioBuffer.read
read(num_samples) ==
    LET to_read    == samples_to_read(num_samples)
        first_part == size - read_pos
    IN  /\ buf_op' = "read" /\ read_arg' = num_samples
        /\ write_arg' = <<>> /\ write_ret' = 0
        /\ UNCHANGED <<size, buffer, write_pos, accepted>>
        /\ IF to_read <= 0
           THEN /\ read_ret' = <<>>
                /\ UNCHANGED <<read_pos, available_samples, delivered>>
           ELSE /\ read_ret' = IF read_pos + to_read <= size
                               THEN Slice(buffer, read_pos, read_pos + to_read)
                               ELSE Slice(buffer, read_pos, size)
                                    \o Slice(buffer, 0, to_read - first_part)
                /\ read_pos' = (read_pos + to_read) % size
                /\ available_samples' = available_samples - to_read
                /\ delivered' = delivered \o read_ret'

\* as clear, without self.read_pos = 0
clear_keeps_read_pos ==
    /\ buf_op' = "clear"
    /\ buffer' = Zeros(size)
    /\ write_pos' = 0
    /\ available_samples' = 0
    /\ write_arg' = <<>> /\ write_ret' = 0
    /\ read_arg' = 0 /\ read_ret' = <<>>
    /\ accepted' = <<>> /\ delivered' = <<>>
    /\ UNCHANGED <<size, read_pos>>

\* AudioBuffer.clear; the histories restart with the emptied buffer
clear ==
    /\ buf_op' = "clear"
    /\ buffer' = Zeros(size)
    /\ write_pos' = 0
    /\ read_pos' = 0
    /\ available_samples' = 0
    /\ write_arg' = <<>> /\ write_ret' = 0
    /\ read_arg' = 0 /\ read_ret' = <<>>
    /\ accepted' = <<>> /\ delivered' = <<>>
    /\ UNCHANGED size

BufWrite == /\ Len(accepted) < MaxHistory
            /\ \E audio_data \in SeqsUpTo(Samples, MaxWriteLen) : write(audio_data)
            /\ UNCHANGED <<engineVars, genVars, batchVars, callVars, wavVars, monVars, qualityVars, profVars, lockVars, playVars, chunkerVars, argVars, repeatVars, aliasVars, clockVars>>
BufRead  == /\ \E num_samples \in -1 .. MaxWriteLen : read(num_samples)
            /\ UNCHANGED <<engineVars, genVars, batchVars, callVars, wavVars, monVars, qualityVars, profVars, lockVars, playVars, chunkerVars, argVars, repeatVars, aliasVars, clockVars>>
BufClear == clear /\ UNCHANGED <<engineVars, genVars, batchVars, callVars, wavVars, monVars, qualityVars, profVars, lockVars, playVars, chunkerVars, argVars, repeatVars, aliasVars, clockVars>>

(***************************************************************************)
(* PerformanceProfiler: the active timers (a dict keyed by operation name) *)
(* and, per operation, the number of duration samples kept                 *)
(***************************************************************************)
max_samples == 1000
Operations  == {"realtime_generation", "streaming_generation"}

InitProfiler ==
    /\ active_timers = {}
    /\ timings = [op \in Operations |-> 0]

\* PerformanceProfiler.start_timing: self._active_timers[operation] = time.time()
start_timing(operation) ==
    /\ active_timers' = active_timers \cup {operation}
    /\ UNCHANGED timings

\* PerformanceProfiler.end_timing: pop the timer, popleft at the cap, append
end_timing(operation) ==
    IF operation \in active_timers
    THEN /\ active_timers' = active_timers \ {operation}
         /\ timings' = [timings EXCEPT ![operation] =
                            (IF @ >= max_samples THEN @ - 1 ELSE @) + 1]
    ELSE UNCHANGED <<active_timers, timings>>

(***************************************************************************)
(* RealtimeKittenTTS: the audio cache and generate_fast                    *)
(***************************************************************************)
NumTexts     == 4     \* texts 0 .. NumTexts-1
HashSpace    == 3     \* range of hash(text), scaled down from 2^64: texts 0 and 3 collide
MaxCacheSize == 2     \* self._max_cache_size, scaled down so that the cache fills
NumCallers   == 2     \* threads calling generate_fast concurrently
MaxCalls     == 3     \* generate_fast calls made in one run

Texts  == 0 .. NumTexts - 1
Voices == {"expr-voice-5-m"}
\* self.available_voices of the base model
available_voices == Voices
Speeds == {1}
None   == [none |-> TRUE]

\* hash(text): deterministic, not injective
Hash(text) == text % HashSpace

\* cache_key = f"{hash(text)}_{voice}_{speed}"
CacheKey(req) == <<Hash(req.text), req.voice, req.speed>>

\* base_model.generate(text, voice, speed) when it returns: the audio of that request
Render(req) == [text |-> req.text, voice |-> req.voice, speed |-> req.speed]

\* cache_key in self._audio_cache
CacheHas(cache, key) == \E i \in 1 .. Len(cache) : cache[i].key = key

\* self._audio_cache[cache_key]
CacheGet(cache, key) == cache[CHOOSE i \in 1 .. Len(cache) : cache[i].key = key].audio

\* self._audio_cache[cache_key] = audio.copy(): a present key keeps its place in
\* the dict's insertion order, a new key goes last
CacheSet(cache, key, audio) ==
    IF CacheHas(cache, key)
    THEN [i \in 1 .. Len(cache) |-> IF cache[i].key = key
                                     THEN [key |-> key, audio |-> audio] ELSE cache[i]]
    ELSE Append(cache, [key |-> key, audio |-> audio])

\* as CacheStore, without the eviction branch
CacheStore_no_evict(cache, key, audio) == CacheSet(cache, key, audio)

\* the "Cache the result" block of generate_fast
CacheStore(cache, key, audio) ==
    IF Len(cache) < MaxCacheSize
    THEN CacheSet(cache, key, audio)
    ELSE \* oldest_key = next(iter(self._audio_cache)); del self._audio_cache[oldest_key]
         CacheSet(Tail(cache), key, audio)

NoRequest == [text |-> 0, voice |-> "expr-voice-5-m", speed |-> 1, use_cache |-> TRUE]

\* generate_fast, entry: start_timing, then the cache check or straight to the render
fast_begin(t, req) ==
    /\ start_timing("realtime_generation")
    /\ fast_req' = [fast_req EXCEPT ![t] = req]
    /\ fast_pc' = [fast_pc EXCEPT ![t] = IF req.use_cache THEN "lookup" ELSE "render"]
    /\ UNCHANGED <<audio_cache, fast_audio, fast_ret>>

\* as fast_lookup, but a hit moves the entry to the newest place (an LRU cache)
fast_lookup_touch(t) ==
    /\ fast_pc[t] = "lookup"
    /\ IF CacheHas(audio_cache, CacheKey(fast_req[t]))
       THEN /\ end_timing("realtime_generation")
            /\ fast_ret' = [fast_ret EXCEPT ![t] = CacheGet(audio_cache, CacheKey(fast_req[t]))]
            /\ fast_pc' = [fast_pc EXCEPT ![t] = "done"]
            /\ audio_cache' =
                   Append(SelectSeq(audio_cache, LAMBDA e : e.key # CacheKey(fast_req[t])),
                          [key |-> CacheKey(fast_req[t]),
                           audio |-> CacheGet(audio_cache, CacheKey(fast_req[t]))])
       ELSE /\ fast_pc' = [fast_pc EXCEPT ![t] = "render"]
            /\ UNCHANGED <<audio_cache, active_timers, timings, fast_ret>>
    /\ UNCHANGED <<fast_req, fast_audio>>

\* generate_fast, "Check cache first" (one critical section of _cache_lock)
fast_lookup(t) ==
    /\ fast_pc[t] = "lookup"
    /\ IF CacheHas(audio_cache, CacheKey(fast_req[t]))
       THEN /\ end_timing("realtime_generation")
            /\ fast_ret' = [fast_ret EXCEPT ![t] = CacheGet(audio_cache, CacheKey(fast_req[t]))]
            /\ fast_pc' = [fast_pc EXCEPT ![t] = "done"]
       ELSE /\ fast_pc' = [fast_pc EXCEPT ![t] = "render"]
            /\ UNCHANGED <<active_timers, timings, fast_ret>>
    /\ UNCHANGED <<audio_cache, fast_req, fast_audio>>

\* as fast_render, but the rendered audio is returned without being cached
fast_render_skips_store(t) ==
    /\ fast_pc[t] = "render"
    /\ fast_audio' = [fast_audio EXCEPT ![t] = Render(fast_req[t])]
    /\ fast_pc' = [fast_pc EXCEPT ![t] = "end"]
    /\ UNCHANGED <<audio_cache, active_timers, timings, fast_req, fast_ret>>

\* generate_fast, audio = self.base_model.generate(...) returns
fast_render(t) ==
    /\ fast_pc[t] = "render"
    /\ fast_req[t].voice \in available_voices   \* else _prepare_inputs raises ValueError
    /\ fast_audio' = [fast_audio EXCEPT ![t] = Render(fast_req[t])]
    /\ fast_pc' = [fast_pc EXCEPT ![t] = IF fast_req[t].use_cache THEN "store" ELSE "end"]
    /\ UNCHANGED <<audio_cache, active_timers, timings, fast_req, fast_ret>>

\* generate_fast, self.base_model.generate(...) raises: the exception leaves generate_fast
fast_render_raises(t) ==
    /\ fast_pc[t] = "render"
    /\ fast_pc' = [fast_pc EXCEPT ![t] = "raised"]
    /\ UNCHANGED <<audio_cache, active_timers, timings, fast_req, fast_audio, fast_ret>>

\* generate_fast, "Cache the result" (one critical section of _cache_lock)
fast_store(t) ==
    /\ fast_pc[t] = "store"
    /\ audio_cache' = CacheStore(audio_cache, CacheKey(fast_req[t]), fast_audio[t])
    /\ fast_pc' = [fast_pc EXCEPT ![t] = "end"]
    /\ UNCHANGED <<active_timers, timings, fast_req, fast_audio, fast_ret>>

\* generate_fast, end_timing and return audio
fast_end(t) ==
    /\ fast_pc[t] = "end"
    /\ end_timing("realtime_generation")
    /\ fast_ret' = [fast_ret EXCEPT ![t] = fast_audio[t]]
    /\ fast_pc' = [fast_pc EXCEPT ![t] = "done"]
    /\ UNCHANGED <<audio_cache, fast_req, fast_audio>>

\* RealtimeKittenTTS.clear_cache
clear_cache ==
    /\ audio_cache' = <<>>
    /\ UNCHANGED <<active_timers, timings, fast_pc, fast_req, fast_audio, fast_ret>>

InitEngine(threads) ==
    /\ audio_cache = <<>>
    /\ InitProfiler
    /\ fast_pc = [t \in threads |-> "idle"]
    /\ fast_req = [t \in threads |-> NoRequest]
    /\ fast_audio = [t \in threads |-> None]
    /\ fast_ret = [t \in threads |-> None]
    /\ calls_made = 0

(***************************************************************************)
(* KittenTTS_1_Onnx.generate_batch                                         *)
(***************************************************************************)
MaxBatch        == 2   \* longest list of texts
MaxBatchWorkers == 2   \* largest max_workers of the batch's ThreadPoolExecutor
NumBatchTexts   == 2   \* the batch draws its texts from 0 .. NumBatchTexts-1

BatchRequest(text) == [text |-> text, voice |-> "expr-voice-5-m", speed |-> 1]

InitBatch ==
    /\ texts \in SeqsUpTo(0 .. NumBatchTexts - 1, MaxBatch)
    /\ batch_workers \in 1 .. MaxBatchWorkers
    /\ batch_pc = "idle"
    /\ batch_job = [i \in 1 .. Len(texts) |-> [state |-> "none", result |-> None]]
    /\ batch_order = <<>>
    /\ batch_i = 1
    /\ batch_results = <<>>
    /\ batch_ret = None

BatchRunning == {i \in DOMAIN batch_job : batch_job[i].state = "running"}

\* generate_batch is called: one text is rendered in the calling thread,
\* several are all submitted to a fresh ThreadPoolExecutor(max_workers)
batch_call ==
    /\ batch_pc = "idle"
    /\ IF Len(texts) = 1
       THEN /\ batch_pc' = "single"
            /\ batch_job' = [batch_job EXCEPT ![1].state = "running"]
       ELSE /\ batch_pc' = "collect"
            /\ batch_job' = [i \in DOMAIN batch_job |-> [state |-> "queued", result |-> None]]
    /\ UNCHANGED <<texts, batch_workers, batch_order, batch_i, batch_results, batch_ret>>

\* a pool thread takes the oldest queued work item
batch_job_start(i) ==
    /\ batch_job[i].state = "queued"
    /\ \A j \in 1 .. i - 1 : batch_job[j].state # "queued"
    /\ Cardinality(BatchRunning) < batch_workers
    /\ batch_job' = [batch_job EXCEPT ![i].state = "running"]
    /\ UNCHANGED <<texts, batch_workers, batch_pc, batch_order, batch_i, batch_results, batch_ret>>

\* self.generate(text, voice, speed) returns in a pool thread: the future holds the audio
batch_job_returns(i) ==
    /\ batch_pc # "single"
    /\ batch_job[i].state = "running"
    /\ batch_job' = [batch_job EXCEPT ![i] = [state |-> "done",
                                               result |-> Render(BatchRequest(texts[i]))]]
    /\ batch_order' = Append(batch_order, i)
    /\ UNCHANGED <<texts, batch_workers, batch_pc, batch_i, batch_results, batch_ret>>

\* self.generate raises RuntimeError in a pool thread: the future holds the exception
batch_job_raises(i) ==
    /\ batch_pc # "single"
    /\ batch_job[i].state = "running"
    /\ batch_job' = [batch_job EXCEPT ![i].state = "failed"]
    /\ batch_order' = Append(batch_order, i)
    /\ UNCHANGED <<texts, batch_workers, batch_pc, batch_i, batch_results, batch_ret>>

\* len(texts) == 1: return [self.generate(texts[0], voice, speed)]
batch_single_returns ==
    /\ batch_pc = "single"
    /\ batch_job' = [batch_job EXCEPT ![1] = [state |-> "done",
                                               result |-> Render(BatchRequest(texts[1]))]]
    /\ batch_ret' = <<Render(BatchRequest(texts[1]))>>
    /\ batch_pc' = "returned"
    /\ UNCHANGED <<texts, batch_workers, batch_order, batch_i, batch_results>>

\* len(texts) == 1 and self.generate raises: the exception leaves generate_batch
batch_single_raises ==
    /\ batch_pc = "single"
    /\ batch_job' = [batch_job EXCEPT ![1].state = "failed"]
    /\ batch_pc' = "raised"
    /\ UNCHANGED <<texts, batch_workers, batch_order, batch_i, batch_results, batch_ret>>

\* as batch_collect, but taking the futures in the order they finish (as_completed)
batch_collect_as_completed ==
    /\ batch_pc = "collect"
    /\ batch_i <= Len(texts)
    /\ batch_i <= Len(batch_order)
    /\ IF batch_job[batch_order[batch_i]].state = "done"
       THEN /\ batch_results' = Append(batch_results, batch_job[batch_order[batch_i]].result)
            /\ batch_i' = batch_i + 1
            /\ UNCHANGED batch_pc
       ELSE /\ batch_pc' = "unwind"
            /\ UNCHANGED <<batch_i, batch_results>>
    /\ UNCHANGED <<texts, batch_workers, batch_job, batch_order, batch_ret>>

\* results = [future.result() for future in futures]: the next future in
\* submission order, waited for until it is done
batch_collect ==
    /\ batch_pc = "collect"
    /\ batch_i <= Len(texts)
    /\ batch_job[batch_i].state \in {"done", "failed"}
    /\ IF batch_job[batch_i].state = "done"
       THEN /\ batch_results' = Append(batch_results, batch_job[batch_i].result)
            /\ batch_i' = batch_i + 1
            /\ UNCHANGED batch_pc
       ELSE /\ batch_pc' = "unwind"
            /\ UNCHANGED <<batch_i, batch_results>>
    /\ UNCHANGED <<texts, batch_workers, batch_job, batch_order, batch_ret>>

\* as batch_exit, but a failed future is skipped and the rest is returned
batch_exit_returns_partial ==
    /\ \/ batch_pc = "collect" /\ batch_i > Len(texts)
       \/ batch_pc = "unwind"
    /\ \A i \in DOMAIN batch_job : batch_job[i].state \in {"done", "failed"}
    /\ batch_pc' = "returned" /\ batch_ret' = batch_results
    /\ UNCHANGED <<texts, batch_workers, batch_job, batch_order, batch_i, batch_results>>

\* the with block ends (executor.shutdown(wait=True): every job has finished):
\* return results, or let the exception of future.result() out
batch_exit ==
    /\ \/ batch_pc = "collect" /\ batch_i > Len(texts)
       \/ batch_pc = "unwind"
    /\ \A i \in DOMAIN batch_job : batch_job[i].state \in {"done", "failed"}
    /\ IF batch_pc = "collect"
       THEN batch_pc' = "returned" /\ batch_ret' = batch_results
       ELSE batch_pc' = "raised" /\ UNCHANGED batch_ret
    /\ UNCHANGED <<texts, batch_workers, batch_job, batch_order, batch_i, batch_results>>

(***************************************************************************)
(* Blocking use of the engine: threads calling generate_fast, clear_cache, *)
(* and one generate_batch call on the base model                           *)
(***************************************************************************)
Callers  == 1 .. NumCallers
Requests == [text : Texts, voice : Voices, speed : Speeds, use_cache : BOOLEAN]
CachedRequests == {req \in Requests : req.use_cache}

InitIdleBuffer ==
    /\ size = 0 /\ buffer = Zeros(0) /\ write_pos = 0 /\ read_pos = 0
    /\ available_samples = 0 /\ buf_op = "init"
    /\ write_arg = <<>> /\ write_ret = 0 /\ read_arg = 0 /\ read_ret = <<>>
    /\ accepted = <<>> /\ delivered = <<>>

InitIdleGen ==
    /\ chunks = <<>> /\ max_workers = 1 /\ gen_pc = "idle" /\ gen_i = 0
    /\ futures = <<>> /\ completed = <<>> /\ gen_pos = 1
    /\ yielded = <<>> /\ timed_out = {}

InitIdleBatch ==
    /\ texts = <<>> /\ batch_workers = 1 /\ batch_pc = "idle"
    /\ batch_job = <<>> /\ batch_order = <<>> /\ batch_i = 1 /\ batch_results = <<>> /\ batch_ret = None

InitIdleEngine == InitEngine({})

\* no StreamingKittenTTS request
InitIdlePlayback ==
    /\ is_streaming = FALSE /\ playback_queue = <<>>
    /\ worker_pc = <<>> /\ worker_chunk = <<>> /\ all_audio = <<>> /\ jobs = <<>>
    /\ consumer_pc = <<>> /\ received = <<>>
    /\ stops = 0 /\ after_stop = <<>>
    /\ output_file = <<>> /\ saved_file = <<>>

\* no lock is held
InitIdleLocks == cache_lock = None /\ profiler_lock = None

\* no profiler with recorded durations
InitIdleProfiler ==
    /\ profiler_max_samples = 1
    /\ profiler_active_timers = <<>> /\ profiler_timings = <<>>
    /\ profiler_time = 0 /\ profiler_recorded = <<>>

\* no AdaptiveQualityManager
InitIdleQuality ==
    /\ current_quality = "none" /\ latency_history = <<>>
    /\ demo_pc = "idle" /\ demo_runs = 0

\* no ResourceMonitor
InitIdleMonitor ==
    /\ available = FALSE /\ monitoring = FALSE /\ monitor_thread = None
    /\ resource_history = <<>> /\ monitor_loops = {}
    /\ monitor_op = "none" /\ monitor_calls = 0

\* no audio to encode
InitIdleWav ==
    /\ wav_chunks = <<>> /\ wav_file = <<>> /\ wav_ret = "not called"
    /\ wav_stream = <<>> /\ wav_sent = 0

\* no counter of a profiler, no call of one
InitIdleCalls == profiler_counters = <<>> /\ profiler_call = [op |-> "none", name |-> ""]

\* neither the locks, nor the profiler's durations, nor a quality manager, nor a
\* monitor, nor an encoder
InitIdleRest ==
    /\ InitIdleLocks /\ InitIdleProfiler /\ InitIdleQuality /\ InitIdleMonitor /\ InitIdleWav /\ InitIdleCalls
    /\ InitIdleCalls

\* no text is being chunked
InitIdleChunker == input_text = <<>> /\ input_max = 1 /\ chunker_op = "idle" /\ chunker_out = <<>>

\* the defaults of generate_streaming: voice="expr-voice-5-m", speed=1.0
InitArgs == gen_voice = "expr-voice-5-m" /\ gen_speed = 1

\* the first streaming call of a request
InitRepeat == gen_round = 1 /\ first_yielded = <<>>

\* no array has been allocated
InitHeap == heap = <<>> /\ held = {}

\* the clock starts at 0 and no key has been stored
InitClock == now = 0 /\ stored_at = [key \in {CacheKey(req) : req \in Requests} |-> 0]

\* a thread calls generate_fast(text, voice, speed, use_cache)
FastCall(t, requests) ==
    /\ fast_pc[t] = "idle"
    /\ calls_made' = calls_made + 1
    /\ \E req \in requests : fast_begin(t, req)
    /\ UNCHANGED <<bufVars, callVars, wavVars, monVars, qualityVars, profVars, lockVars, playVars, chunkerVars, argVars, repeatVars, aliasVars, clockVars, genVars, batchVars>>

FastLookup(t)       == fast_lookup(t) /\ UNCHANGED <<calls_made, bufVars, callVars, wavVars, monVars, qualityVars, profVars, lockVars, playVars, chunkerVars, argVars, repeatVars, aliasVars, clockVars, genVars, batchVars>>
FastRender(t)       == fast_render(t) /\ UNCHANGED <<calls_made, bufVars, callVars, wavVars, monVars, qualityVars, profVars, lockVars, playVars, chunkerVars, argVars, repeatVars, aliasVars, clockVars, genVars, batchVars>>
FastRenderRaises(t) == fast_render_raises(t) /\ UNCHANGED <<calls_made, bufVars, callVars, wavVars, monVars, qualityVars, profVars, lockVars, playVars, chunkerVars, argVars, repeatVars, aliasVars, clockVars, genVars, batchVars>>
FastStore(t)        == fast_store(t) /\ UNCHANGED <<calls_made, bufVars, callVars, wavVars, monVars, qualityVars, profVars, lockVars, playVars, chunkerVars, argVars, repeatVars, aliasVars, clockVars, genVars, batchVars>>
FastEnd(t)          == fast_end(t) /\ UNCHANGED <<calls_made, bufVars, callVars, wavVars, monVars, qualityVars, profVars, lockVars, playVars, chunkerVars, argVars, repeatVars, aliasVars, clockVars, genVars, batchVars>>

\* the caller has its audio, or has caught the exception, and may call again
FastReturn(t) ==
    /\ fast_pc[t] \in {"done", "raised"}
    /\ fast_pc' = [fast_pc EXCEPT ![t] = "idle"]
    /\ fast_req' = [fast_req EXCEPT ![t] = NoRequest]
    /\ fast_audio' = [fast_audio EXCEPT ![t] = None]
    /\ fast_ret' = [fast_ret EXCEPT ![t] = None]
    /\ UNCHANGED <<audio_cache, active_timers, timings, calls_made, bufVars, callVars, wavVars, monVars, qualityVars, profVars, lockVars, playVars, chunkerVars, argVars, repeatVars, aliasVars, clockVars, genVars, batchVars>>

ClearCache == clear_cache /\ UNCHANGED <<calls_made, bufVars, callVars, wavVars, monVars, qualityVars, profVars, lockVars, playVars, chunkerVars, argVars, repeatVars, aliasVars, clockVars, genVars, batchVars>>

BatchCall          == batch_call /\ UNCHANGED <<bufVars, callVars, wavVars, monVars, qualityVars, profVars, lockVars, playVars, chunkerVars, argVars, repeatVars, aliasVars, clockVars, engineVars, genVars>>
BatchJobStart      == \E i \in DOMAIN batch_job : batch_job_start(i) /\ UNCHANGED <<bufVars, callVars, wavVars, monVars, qualityVars, profVars, lockVars, playVars, chunkerVars, argVars, repeatVars, aliasVars, clockVars, engineVars, genVars>>
BatchJobReturns    == \E i \in DOMAIN batch_job : batch_job_returns(i) /\ UNCHANGED <<bufVars, callVars, wavVars, monVars, qualityVars, profVars, lockVars, playVars, chunkerVars, argVars, repeatVars, aliasVars, clockVars, engineVars, genVars>>
BatchJobRaises     == \E i \in DOMAIN batch_job : batch_job_raises(i) /\ UNCHANGED <<bufVars, callVars, wavVars, monVars, qualityVars, profVars, lockVars, playVars, chunkerVars, argVars, repeatVars, aliasVars, clockVars, engineVars, genVars>>
BatchSingleReturns == batch_single_returns /\ UNCHANGED <<bufVars, callVars, wavVars, monVars, qualityVars, profVars, lockVars, playVars, chunkerVars, argVars, repeatVars, aliasVars, clockVars, engineVars, genVars>>
BatchSingleRaises  == batch_single_raises /\ UNCHANGED <<bufVars, callVars, wavVars, monVars, qualityVars, profVars, lockVars, playVars, chunkerVars, argVars, repeatVars, aliasVars, clockVars, engineVars, genVars>>
BatchCollect       == batch_collect /\ UNCHANGED <<bufVars, callVars, wavVars, monVars, qualityVars, profVars, lockVars, playVars, chunkerVars, argVars, repeatVars, aliasVars, clockVars, engineVars, genVars>>
BatchExit          == batch_exit /\ UNCHANGED <<bufVars, callVars, wavVars, monVars, qualityVars, profVars, lockVars, playVars, chunkerVars, argVars, repeatVars, aliasVars, clockVars, engineVars, genVars>>

InitBuffer == InitAudioBuffer /\ InitIdleEngine /\ InitIdleGen /\ InitIdleBatch
              /\ InitClock /\ InitHeap /\ InitRepeat /\ InitArgs /\ InitIdleChunker /\ InitIdlePlayback /\ InitIdleRest
NextBuffer == BufWrite \/ BufRead \/ BufClear
SpecBuffer == InitBuffer /\ [][NextBuffer]_vars

InitCache == InitIdleBuffer /\ InitEngine(Callers) /\ InitIdleGen /\ InitIdleBatch
             /\ InitClock /\ InitHeap /\ InitRepeat /\ InitArgs /\ InitIdleChunker /\ InitIdlePlayback /\ InitIdleRest
NextCache ==
    \/ \E t \in Callers : calls_made < MaxCalls /\ FastCall(t, CachedRequests)
    \/ \E t \in Callers : FastLookup(t)
    \/ \E t \in Callers : FastRender(t)
    \/ \E t \in Callers : FastRenderRaises(t)
    \/ \E t \in Callers : FastStore(t)
    \/ \E t \in Callers : FastEnd(t)
    \/ \E t \in Callers : FastReturn(t)
    \/ ClearCache
SpecCache == InitCache /\ [][NextCache]_vars

\* the audio cache with time passing between the steps of the calls
TTL     == 1   \* the configured time-to-live, in clock ticks
MaxTime == 3   \* the clock stops here

\* time.time() advances
Tick ==
    /\ now < MaxTime
    /\ now' = now + 1
    /\ UNCHANGED <<stored_at, bufVars, callVars, wavVars, monVars, qualityVars, profVars, lockVars, playVars, chunkerVars, argVars, repeatVars, aliasVars, engineVars, genVars, batchVars>>

\* the "Cache the result" block, and the time at which it ran
TimedStore(t) ==
    /\ fast_store(t)
    /\ stored_at' = [stored_at EXCEPT ![CacheKey(fast_req[t])] = now]
    /\ UNCHANGED <<now, calls_made, bufVars, callVars, wavVars, monVars, qualityVars, profVars, lockVars, playVars, chunkerVars, argVars, repeatVars, aliasVars, genVars, batchVars>>

InitTtl == InitCache
NextTtl ==
    \/ \E t \in Callers : calls_made < MaxCalls /\ FastCall(t, CachedRequests)
    \/ \E t \in Callers : FastLookup(t)
    \/ \E t \in Callers : FastRender(t)
    \/ \E t \in Callers : FastRenderRaises(t)
    \/ \E t \in Callers : TimedStore(t)
    \/ \E t \in Callers : FastEnd(t)
    \/ \E t \in Callers : FastReturn(t)
    \/ ClearCache
    \/ Tick
SpecTtl == InitTtl /\ [][NextTtl]_vars

\* one client thread making blocking calls one after the other:
\* generate_fast calls and a generate_batch call on the base model
Client == "client"
MaxBlockingCalls == 2   \* generate_fast calls the client makes in one run
\* the client draws the texts of both kinds of call from the same set
ClientRequests == {req \in Requests : req.text < NumBatchTexts}

InitBlocking == InitIdleBuffer /\ InitEngine({Client}) /\ InitIdleGen /\ InitBatch
                /\ InitClock /\ InitHeap /\ InitRepeat /\ InitArgs /\ InitIdleChunker /\ InitIdlePlayback /\ InitIdleRest
NextBlocking ==
    \/ /\ batch_pc \in {"idle", "returned", "raised"}
       /\ calls_made < MaxBlockingCalls
       /\ FastCall(Client, ClientRequests)
    \/ FastLookup(Client)
    \/ FastRender(Client)
    \/ FastRenderRaises(Client)
    \/ FastStore(Client)
    \/ FastEnd(Client)
    \/ FastReturn(Client)
    \/ fast_pc[Client] = "idle" /\ BatchCall
    \/ BatchJobStart \/ BatchJobReturns \/ BatchJobRaises
    \/ BatchSingleReturns \/ BatchSingleRaises \/ BatchCollect \/ BatchExit
SpecBlocking == InitBlocking /\ [][NextBlocking]_vars

(***************************************************************************)
(* generate_fast with arrays as objects: fast_audio, fast_ret and the      *)
(* cache hold references into heap, .copy() allocates a new array, and the *)
(* caller may write into every array it was handed                         *)
(***************************************************************************)
MaxAliasCalls == 3   \* generate_fast calls the client makes in one run

\* the reference of the array that the next allocation creates
NewRef == [ref |-> Len(heap) + 1]

\* the array a reference denotes
Deref(r) == heap[r.ref]

\* the caller negates the samples of an array in place (audio *= -1)
Scribbled(audio) == [audio EXCEPT !.speed = -audio.speed]

\* "Check cache first": return self._audio_cache[cache_key].copy()
ref_lookup(t) ==
    /\ fast_pc[t] = "lookup"
    /\ IF CacheHas(audio_cache, CacheKey(fast_req[t]))
       THEN /\ end_timing("realtime_generation")
            /\ heap' = Append(heap, Deref(CacheGet(audio_cache, CacheKey(fast_req[t]))))
            /\ fast_ret' = [fast_ret EXCEPT ![t] = NewRef]
            /\ fast_pc' = [fast_pc EXCEPT ![t] = "done"]
       ELSE /\ fast_pc' = [fast_pc EXCEPT ![t] = "render"]
            /\ UNCHANGED <<active_timers, timings, fast_ret, heap>>
    /\ UNCHANGED <<audio_cache, fast_req, fast_audio, held>>

\* audio = self.base_model.generate(...) returns a new array
ref_render(t) ==
    /\ fast_pc[t] = "render"
    /\ fast_req[t].voice \in available_voices
    /\ heap' = Append(heap, Render(fast_req[t]))
    /\ fast_audio' = [fast_audio EXCEPT ![t] = NewRef]
    /\ fast_pc' = [fast_pc EXCEPT ![t] = IF fast_req[t].use_cache THEN "store" ELSE "end"]
    /\ UNCHANGED <<audio_cache, active_timers, timings, fast_req, fast_ret, held>>

\* as ref_store, but the cache keeps the rendered array itself
ref_store_no_copy(t) ==
    /\ fast_pc[t] = "store"
    /\ audio_cache' = CacheStore(audio_cache, CacheKey(fast_req[t]), fast_audio[t])
    /\ fast_pc' = [fast_pc EXCEPT ![t] = "end"]
    /\ UNCHANGED <<active_timers, timings, fast_req, fast_audio, fast_ret, heap, held>>

\* "Cache the result": self._audio_cache[cache_key] = audio.copy()
ref_store(t) ==
    /\ fast_pc[t] = "store"
    /\ heap' = Append(heap, Deref(fast_audio[t]))
    /\ audio_cache' = CacheStore(audio_cache, CacheKey(fast_req[t]), NewRef)
    /\ fast_pc' = [fast_pc EXCEPT ![t] = "end"]
    /\ UNCHANGED <<active_timers, timings, fast_req, fast_audio, fast_ret, held>>

RefCall(t) ==
    /\ calls_made < MaxAliasCalls
    /\ FastCall(t, ClientRequests)
RefLookup(t) ==
    ref_lookup(t) /\ UNCHANGED <<calls_made, bufVars, callVars, wavVars, monVars, qualityVars, profVars, lockVars, playVars, chunkerVars, argVars, repeatVars, genVars, batchVars, clockVars>>
RefRender(t) ==
    ref_render(t) /\ UNCHANGED <<calls_made, bufVars, callVars, wavVars, monVars, qualityVars, profVars, lockVars, playVars, chunkerVars, argVars, repeatVars, genVars, batchVars, clockVars>>
RefStore(t) ==
    ref_store(t) /\ UNCHANGED <<calls_made, bufVars, callVars, wavVars, monVars, qualityVars, profVars, lockVars, playVars, chunkerVars, argVars, repeatVars, genVars, batchVars, clockVars>>

\* generate_fast has returned `audio` (a miss) or the copy (a hit): the caller
\* now holds that array; after an exception it holds nothing new
RefReturn(t) ==
    /\ fast_pc[t] \in {"done", "raised"}
    /\ held' = IF fast_pc[t] = "done" THEN held \cup {fast_ret[t]} ELSE held
    /\ fast_pc' = [fast_pc EXCEPT ![t] = "idle"]
    /\ fast_req' = [fast_req EXCEPT ![t] = NoRequest]
    /\ fast_audio' = [fast_audio EXCEPT ![t] = None]
    /\ fast_ret' = [fast_ret EXCEPT ![t] = None]
    /\ UNCHANGED <<audio_cache, active_timers, timings, calls_made, heap>>
    /\ UNCHANGED <<bufVars, callVars, wavVars, monVars, qualityVars, profVars, lockVars, playVars, chunkerVars, argVars, repeatVars, genVars, batchVars, clockVars>>

\* the caller writes into an array it holds
Mutate ==
    /\ \E ref \in held :
         /\ Deref(ref).speed > 0
         /\ heap' = [heap EXCEPT ![ref.ref] = Scribbled(@)]
    /\ UNCHANGED <<held, bufVars, callVars, wavVars, monVars, qualityVars, profVars, lockVars, playVars, chunkerVars, argVars, repeatVars, engineVars, genVars, batchVars, clockVars>>

InitAlias == InitIdleBuffer /\ InitEngine({Client}) /\ InitIdleGen /\ InitIdleBatch
             /\ InitClock /\ InitHeap /\ InitRepeat /\ InitArgs /\ InitIdleChunker /\ InitIdlePlayback /\ InitIdleRest
NextAlias ==
    \/ RefCall(Client)
    \/ RefLookup(Client)
    \/ RefRender(Client)
    \/ FastRenderRaises(Client)
    \/ RefStore(Client)
    \/ FastEnd(Client)
    \/ RefReturn(Client)
    \/ Mutate
SpecAlias == InitAlias /\ [][NextAlias]_vars

(***************************************************************************)
(* RealtimeKittenTTS.generate_streaming: the generator, and the            *)
(* ThreadPoolExecutor(max_workers) running one generate_fast per chunk     *)
(***************************************************************************)
MaxChunks     == 3   \* most chunks of one streaming call
MaxWorkers    == 2   \* largest max_workers
NumChunkTexts == 1   \* chunk texts are drawn from 0 .. NumChunkTexts-1

NumChunks == Len(chunks)
Ordinals  == 0 .. NumChunks - 1

\* the arguments of executor.submit(self.generate_fast, chunk, voice, speed, True)
ChunkRequest(i) == [text |-> chunks[i + 1], voice |-> gen_voice, speed |-> gen_speed,
                    use_cache |-> TRUE]

\* fut.done(): generate_fast has returned or raised
FutureDone(i) == fast_pc[i] \in {"done", "raised"}

PoolRunning == {i \in DOMAIN fast_pc : fast_pc[i] \in {"lookup", "render", "store", "end"}}

\* list.remove((idx, fut))
Remove(list, idx) == SelectSeq(list, LAMBDA x : x # idx)

\* a streaming call with max_workers pool threads, after the text was split
StreamCalled(chunk_lists) ==
    /\ chunks \in chunk_lists
    /\ max_workers \in 1 .. MaxWorkers
    /\ gen_pc = "call"
    /\ gen_i = 0
    /\ futures = <<>> /\ completed = <<>> /\ gen_pos = 1
    /\ yielded = <<>> /\ timed_out = {}
    /\ InitEngine(0 .. Len(chunks) - 1)
    /\ InitIdleBuffer /\ InitIdleBatch /\ InitClock /\ InitHeap /\ InitRepeat

InitStream == /\ StreamCalled(SeqsUpTo(0 .. NumChunkTexts - 1, MaxChunks))
              /\ InitArgs /\ InitIdleChunker /\ InitIdlePlayback /\ InitIdleRest

\* the generator body starts: start_timing, the text is split into chunks
GenCall ==
    /\ gen_pc = "call"
    /\ start_timing("streaming_generation")
    /\ gen_pc' = IF NumChunks = 0 THEN "final" ELSE "submit"
    /\ UNCHANGED <<audio_cache, fast_pc, fast_req, fast_audio, fast_ret, calls_made>>
    /\ UNCHANGED <<chunks, max_workers, gen_i, futures, completed, gen_pos, yielded, timed_out>>
    /\ UNCHANGED <<bufVars, callVars, wavVars, monVars, qualityVars, profVars, lockVars, playVars, chunkerVars, argVars, repeatVars, aliasVars, clockVars, batchVars>>

\* for i, chunk in enumerate(chunks): submit, append; the window test
\* len(futures) >= self.max_workers or i == len(chunks) - 1
GenSubmit ==
    /\ gen_pc = "submit"
    /\ fast_pc' = [fast_pc EXCEPT ![gen_i] = "queued"]
    /\ fast_req' = [fast_req EXCEPT ![gen_i] = ChunkRequest(gen_i)]
    /\ futures' = Append(futures, gen_i)
    /\ IF Len(futures') >= max_workers \/ gen_i = NumChunks - 1
       THEN gen_pc' = "scan" /\ gen_pos' = 1 /\ completed' = <<>> /\ UNCHANGED gen_i
       ELSE gen_i' = gen_i + 1 /\ UNCHANGED <<gen_pc, gen_pos, completed>>
    /\ UNCHANGED <<audio_cache, active_timers, timings, fast_audio, fast_ret, calls_made>>
    /\ UNCHANGED <<chunks, max_workers, yielded, timed_out>>
    /\ UNCHANGED <<bufVars, callVars, wavVars, monVars, qualityVars, profVars, lockVars, playVars, chunkerVars, argVars, repeatVars, aliasVars, clockVars, batchVars>>

\* for idx, fut in futures: if fut.done(): completed.append((idx, fut))
\* one future is tested per step, jobs may finish in between
GenScan ==
    /\ gen_pc = "scan"
    /\ LET idx == futures[gen_pos]
       IN  completed' = IF FutureDone(idx) THEN Append(completed, idx) ELSE completed
    /\ IF gen_pos = Len(futures)
       THEN gen_pc' = "drain" /\ gen_pos' = 1
       ELSE gen_pos' = gen_pos + 1 /\ UNCHANGED gen_pc
    /\ UNCHANGED <<engineVars, chunks, max_workers, gen_i, futures, yielded, timed_out>>
    /\ UNCHANGED <<bufVars, callVars, wavVars, monVars, qualityVars, profVars, lockVars, playVars, chunkerVars, argVars, repeatVars, aliasVars, clockVars, batchVars>>

\* for idx, fut in sorted(completed): try: yield fut.result(); futures.remove(...)
\* except Exception: log (the future stays in the list)
GenDrain ==
    /\ gen_pc = "drain"
    /\ gen_pos <= Len(completed)
    /\ LET idx == completed[gen_pos]
       IN  IF fast_pc[idx] = "done"
           THEN /\ yielded' = Append(yielded, [ordinal |-> idx, audio |-> fast_ret[idx]])
                /\ futures' = Remove(futures, idx)
           ELSE UNCHANGED <<yielded, futures>>
    /\ gen_pos' = gen_pos + 1
    /\ UNCHANGED <<engineVars, chunks, max_workers, gen_pc, gen_i, completed, timed_out>>
    /\ UNCHANGED <<bufVars, callVars, wavVars, monVars, qualityVars, profVars, lockVars, playVars, chunkerVars, argVars, repeatVars, aliasVars, clockVars, batchVars>>

\* the window's loop over completed ends: the next chunk, or the final loop
GenDrainExit ==
    /\ gen_pc = "drain"
    /\ gen_pos > Len(completed)
    /\ IF gen_i = NumChunks - 1
       THEN gen_pc' = "final" /\ UNCHANGED gen_i
       ELSE gen_pc' = "submit" /\ gen_i' = gen_i + 1
    /\ gen_pos' = 1
    /\ completed' = <<>>
    /\ UNCHANGED <<engineVars, chunks, max_workers, futures, yielded, timed_out>>
    /\ UNCHANGED <<bufVars, callVars, wavVars, monVars, qualityVars, profVars, lockVars, playVars, chunkerVars, argVars, repeatVars, aliasVars, clockVars, batchVars>>

\* for idx, future in sorted(futures): future.result(timeout=10.0) returns
\* (yield) or re-raises the job's exception (logged)
GenFinal ==
    /\ gen_pc = "final"
    /\ gen_pos <= Len(futures)
    /\ FutureDone(futures[gen_pos])
    /\ LET idx == futures[gen_pos]
       IN  yielded' = IF fast_pc[idx] = "done"
                      THEN Append(yielded, [ordinal |-> idx, audio |-> fast_ret[idx]])
                      ELSE yielded
    /\ gen_pos' = gen_pos + 1
    /\ UNCHANGED <<engineVars, chunks, max_workers, gen_pc, gen_i, futures, completed, timed_out>>
    /\ UNCHANGED <<bufVars, callVars, wavVars, monVars, qualityVars, profVars, lockVars, playVars, chunkerVars, argVars, repeatVars, aliasVars, clockVars, batchVars>>

\* future.result(timeout=10.0) on a job that has not finished after 10 s:
\* TimeoutError, caught by except Exception and logged; the job keeps running
GenFinalTimeout ==
    /\ gen_pc = "final"
    /\ gen_pos <= Len(futures)
    /\ ~FutureDone(futures[gen_pos])
    /\ timed_out' = timed_out \cup {futures[gen_pos]}
    /\ gen_pos' = gen_pos + 1
    /\ UNCHANGED <<engineVars, chunks, max_workers, gen_pc, gen_i, futures, completed, yielded>>
    /\ UNCHANGED <<bufVars, callVars, wavVars, monVars, qualityVars, profVars, lockVars, playVars, chunkerVars, argVars, repeatVars, aliasVars, clockVars, batchVars>>

\* after the final loop: end_timing, the generator is exhausted
GenEnd ==
    /\ gen_pc = "final"
    /\ gen_pos > Len(futures)
    /\ end_timing("streaming_generation")
    /\ gen_pc' = "done"
    /\ UNCHANGED <<audio_cache, fast_pc, fast_req, fast_audio, fast_ret, calls_made>>
    /\ UNCHANGED <<chunks, max_workers, gen_i, futures, completed, gen_pos, yielded, timed_out>>
    /\ UNCHANGED <<bufVars, callVars, wavVars, monVars, qualityVars, profVars, lockVars, playVars, chunkerVars, argVars, repeatVars, aliasVars, clockVars, batchVars>>

\* a pool that starts a thread for every work item
PoolStart_unbounded(i) ==
    /\ fast_pc[i] = "queued"
    /\ fast_begin(i, fast_req[i])
    /\ UNCHANGED <<calls_made, bufVars, callVars, wavVars, monVars, qualityVars, profVars, lockVars, playVars, chunkerVars, argVars, repeatVars, aliasVars, clockVars, genVars, batchVars>>

\* a pool thread takes the oldest queued work item and enters generate_fast
PoolStart(i) ==
    /\ fast_pc[i] = "queued"
    /\ \A j \in DOMAIN fast_pc : j < i => fast_pc[j] # "queued"
    /\ Cardinality(PoolRunning) < max_workers
    /\ fast_begin(i, fast_req[i])
    /\ UNCHANGED <<calls_made, bufVars, callVars, wavVars, monVars, qualityVars, profVars, lockVars, playVars, chunkerVars, argVars, repeatVars, aliasVars, clockVars, genVars, batchVars>>

NextStream ==
    \/ GenCall \/ GenSubmit \/ GenScan \/ GenDrain \/ GenDrainExit
    \/ GenFinal \/ GenFinalTimeout \/ GenEnd
    \/ \E i \in DOMAIN fast_pc : PoolStart(i)
    \/ \E i \in DOMAIN fast_pc : FastLookup(i)
    \/ \E i \in DOMAIN fast_pc : FastRender(i)
    \/ \E i \in DOMAIN fast_pc : FastRenderRaises(i)
    \/ \E i \in DOMAIN fast_pc : FastStore(i)
    \/ \E i \in DOMAIN fast_pc : FastEnd(i)
SpecStream == InitStream /\ [][NextStream]_vars

\* a step of the pool: a thread takes a work item, or a generate_fast call a
\* pool thread is running takes its next step
PoolStep ==
    \E i \in DOMAIN fast_pc :
        \/ PoolStart(i)
        \/ FastLookup(i)
        \/ FastRender(i) \/ FastRenderRaises(i)
        \/ FastStore(i)
        \/ FastEnd(i)

\* the threads of the ThreadPoolExecutor are scheduled and base_model.generate
\* returns or raises: the pool does not stand still while it has a step to take
PoolFairness == WF_vars(PoolStep)

\* a streaming call on a text of MaxChunks chunks, more than the pool has
\* threads unless max_workers is the largest
InitPool == /\ StreamCalled({[i \in 1 .. MaxChunks |-> 0]})
            /\ InitArgs /\ InitIdleChunker /\ InitIdlePlayback /\ InitIdleRest
SpecPool == InitPool /\ [][NextStream]_vars /\ PoolFairness

\* generate_streaming called with input that is not valid: the empty text (one
\* chunk, the empty string), a voice that is not available, or a speed of 0
EmptyText == NumTexts
InvalidInput ==
    \/ chunks = <<EmptyText>>
    \/ gen_voice \notin available_voices
    \/ gen_speed <= 0
InitInvalid ==
    /\ StreamCalled({<<EmptyText>>} \cup (SeqsUpTo(0 .. NumChunkTexts - 1, MaxChunks) \ {<<>>}))
    /\ gen_voice \in available_voices \cup {"no-such-voice"}
    /\ gen_speed \in Speeds \cup {0}
    /\ InvalidInput
    /\ InitIdleChunker /\ InitIdlePlayback /\ InitIdleRest
SpecInvalid == InitInvalid /\ [][NextStream]_vars

\* the consumer has exhausted the generator and the pool is idle: it calls
\* generate_streaming again on the same engine with the same text, voice, speed
GenRepeat ==
    /\ gen_round = 1
    /\ gen_pc = "done"
    /\ \A i \in Ordinals : FutureDone(i)
    /\ gen_round' = 2
    /\ first_yielded' = yielded
    /\ gen_pc' = "call" /\ gen_i' = 0
    /\ futures' = <<>> /\ completed' = <<>> /\ gen_pos' = 1
    /\ yielded' = <<>> /\ timed_out' = {}
    /\ fast_pc' = [i \in DOMAIN fast_pc |-> "idle"]
    /\ fast_req' = [i \in DOMAIN fast_pc |-> NoRequest]
    /\ fast_audio' = [i \in DOMAIN fast_pc |-> None]
    /\ fast_ret' = [i \in DOMAIN fast_pc |-> None]
    /\ UNCHANGED <<audio_cache, active_timers, timings, calls_made, chunks, max_workers>>
    /\ UNCHANGED <<bufVars, callVars, wavVars, monVars, qualityVars, profVars, lockVars, playVars, chunkerVars, argVars, batchVars, clockVars, aliasVars>>

\* a streaming request issued twice in sequence, with renders that all return
InitTwice == InitStream
NextTwice ==
    \/ GenCall \/ GenSubmit \/ GenScan \/ GenDrain \/ GenDrainExit
    \/ GenFinal \/ GenFinalTimeout \/ GenEnd
    \/ GenRepeat
    \/ \E i \in DOMAIN fast_pc : PoolStart(i)
    \/ \E i \in DOMAIN fast_pc : FastLookup(i)
    \/ \E i \in DOMAIN fast_pc : FastRender(i)
    \/ \E i \in DOMAIN fast_pc : FastStore(i)
    \/ \E i \in DOMAIN fast_pc : FastEnd(i)
SpecTwice == InitTwice /\ [][NextTwice]_vars

(***************************************************************************)
(* TextChunker (utils.py) and RealtimeKittenTTS._split_text_for_streaming: *)
(* a string is a sequence of characters                                    *)
(***************************************************************************)
MaxTextLen   == 6   \* longest input text
MaxChunkSize == 3   \* largest max_chunk_size

\* "a" stands for every character that is neither whitespace nor a sentence
\* ending (the clause endings ",;:-" included: both branches of the clause
\* test in _split_long_sentence do the same), "." for the endings ".!?"
Whitespace      == {" "}
SentenceEndings == {"."}
Chars           == {"a"} \cup Whitespace \cup SentenceEndings

RECURSIVE RunEnd(_, _, _)
\* the last index of the longest run of characters of set that starts at pos
RunEnd(s, pos, set) ==
    IF pos < Len(s) /\ s[pos + 1] \in set THEN RunEnd(s, pos + 1, set) ELSE pos

RECURSIVE lstrip(_)
lstrip(s) == IF s # <<>> /\ Head(s) \in Whitespace THEN lstrip(Tail(s)) ELSE s
RECURSIVE rstrip(_)
rstrip(s) == IF s # <<>> /\ s[Len(s)] \in Whitespace THEN rstrip(SubSeq(s, 1, Len(s) - 1)) ELSE s
\* str.strip()
strip(s) == rstrip(lstrip(s))

RECURSIVE str_split(_)
\* str.split(): the runs of characters that are not whitespace
str_split(s) ==
    LET t == lstrip(s)
    IN  IF t = <<>> THEN <<>>
        ELSE LET e == RunEnd(t, 1, Chars \ Whitespace)
             IN  <<SubSeq(t, 1, e)>> \o str_split(SubSeq(t, e + 1, Len(t)))

RECURSIVE re_split_endings_spaces(_, _, _)
\* re.split(r'[.!?]+\s+', text) from position pos, the current piece starting at
\* start: the leftmost match starts at the first ending of a run of endings
\* that whitespace follows, and takes the whole run and all the whitespace
re_split_endings_spaces(s, pos, start) ==
    IF pos > Len(s) THEN <<SubSeq(s, start, Len(s))>>
    ELSE IF s[pos] \in SentenceEndings
         THEN LET e == RunEnd(s, pos, SentenceEndings)
              IN  IF e < Len(s) /\ s[e + 1] \in Whitespace
                  THEN LET f == RunEnd(s, e + 1, Whitespace)
                       IN  <<SubSeq(s, start, pos - 1)>>
                               \o re_split_endings_spaces(s, f + 1, f + 1)
                  ELSE re_split_endings_spaces(s, e + 1, start)
         ELSE re_split_endings_spaces(s, pos + 1, start)

RECURSIVE re_split_endings(_, _, _)
\* re.split(r'[.!?]+', text): every run of endings separates two pieces
re_split_endings(s, pos, start) ==
    IF pos > Len(s) THEN <<SubSeq(s, start, Len(s))>>
    ELSE IF s[pos] \in SentenceEndings
         THEN LET e == RunEnd(s, pos, SentenceEndings)
              IN  <<SubSeq(s, start, pos - 1)>> \o re_split_endings(s, e + 1, e + 1)
         ELSE re_split_endings(s, pos + 1, start)

\* [s.strip() for s in sentences if s.strip()]
StripNonEmpty(pieces) ==
    SelectSeq([i \in 1 .. Len(pieces) |-> strip(pieces[i])], LAMBDA piece : piece # <<>>)

\* TextChunker._split_sentences
split_sentences(text) == StripNonEmpty(re_split_endings_spaces(text, 1, 1))

\* RealtimeKittenTTS._split_into_sentences
split_into_sentences(text) == StripNonEmpty(re_split_endings(text, 1, 1))

\* one pass of a joining loop: chunks and current_chunk, then the next piece;
\* space is 1 where the test counts the joining space and 0 where it does not
JoinPiece(st, piece, max_chunk_size, space) ==
    IF Len(st.current_chunk) + Len(piece) + space > max_chunk_size /\ st.current_chunk # <<>>
    THEN [chunks |-> Append(st.chunks, strip(st.current_chunk)), current_chunk |-> piece]
    ELSE [chunks |-> st.chunks,
          current_chunk |-> IF st.current_chunk # <<>>
                            THEN st.current_chunk \o <<" ">> \o piece ELSE piece]

RECURSIVE JoinPieces(_, _, _, _)
JoinPieces(st, pieces, max_chunk_size, space) ==
    IF pieces = <<>> THEN st
    ELSE JoinPieces(JoinPiece(st, Head(pieces), max_chunk_size, space),
                    Tail(pieces), max_chunk_size, space)

\* if current_chunk: chunks.append(current_chunk.strip())
Flush(st) ==
    IF st.current_chunk # <<>> THEN Append(st.chunks, strip(st.current_chunk)) ELSE st.chunks

NoChunks == [chunks |-> <<>>, current_chunk |-> <<>>]

\* TextChunker._split_long_sentence
split_long_sentence(sentence, max_chunk_size) ==
    Flush(JoinPieces(NoChunks, str_split(sentence), max_chunk_size, 1))

RECURSIVE JoinSentences(_, _, _)
\* the loop over the sentences in TextChunker.chunk_text
JoinSentences(st, sentences, max_chunk_size) ==
    IF sentences = <<>> THEN st
    ELSE LET sentence == Head(sentences)
             next == IF Len(sentence) > max_chunk_size
                     THEN JoinPieces(st, split_long_sentence(sentence, max_chunk_size),
                                     max_chunk_size, 0)
                     ELSE JoinPiece(st, sentence, max_chunk_size, 0)
         IN  JoinSentences(next, Tail(sentences), max_chunk_size)

\* TextChunker.chunk_text
chunk_text(text, max_chunk_size) ==
    IF Len(text) <= max_chunk_size
    THEN <<strip(text)>>
    ELSE SelectSeq(Flush(JoinSentences(NoChunks, split_sentences(text), max_chunk_size)),
                   LAMBDA chunk : chunk # <<>>)

\* RealtimeKittenTTS._split_text_for_streaming
split_text_for_streaming(text, max_chunk_size) ==
    IF Len(text) <= max_chunk_size
    THEN <<text>>
    ELSE Flush(JoinPieces(NoChunks, split_into_sentences(text), max_chunk_size, 0))

\* chunks = TextChunker(max_chunk_size).chunk_text(text)
ChunkText ==
    /\ chunker_op = "called"
    /\ chunker_out' = chunk_text(input_text, input_max)
    /\ chunker_op' = "chunk_text"
    /\ UNCHANGED <<input_text, input_max>>
    /\ UNCHANGED <<bufVars, callVars, wavVars, monVars, qualityVars, profVars, lockVars, playVars, engineVars, genVars, batchVars, clockVars, aliasVars, repeatVars, argVars>>

\* chunks = self._split_text_for_streaming(text, chunk_size)
SplitTextForStreaming ==
    /\ chunker_op = "called"
    /\ chunker_out' = split_text_for_streaming(input_text, input_max)
    /\ chunker_op' = "split_text_for_streaming"
    /\ UNCHANGED <<input_text, input_max>>
    /\ UNCHANGED <<bufVars, callVars, wavVars, monVars, qualityVars, profVars, lockVars, playVars, engineVars, genVars, batchVars, clockVars, aliasVars, repeatVars, argVars>>

InitChunker ==
    /\ input_text \in SeqsUpTo(Chars, MaxTextLen)
    /\ input_max \in 1 .. MaxChunkSize
    /\ chunker_op = "called"
    /\ chunker_out = <<>>
    /\ InitIdleBuffer /\ InitIdleEngine /\ InitIdleGen /\ InitIdleBatch
    /\ InitClock /\ InitHeap /\ InitRepeat /\ InitArgs /\ InitIdlePlayback /\ InitIdleRest
NextChunker == ChunkText \/ SplitTextForStreaming
SpecChunker == InitChunker /\ [][NextChunker]_vars

(***************************************************************************)
(* StreamingKittenTTS (realtime_engine.py): one instance, with its one     *)
(* is_streaming Event and its one playback_queue, serving the requests of  *)
(* Sessions; every request has its streaming_worker thread and its         *)
(* consumer iterating get_audio_chunks                                     *)
(***************************************************************************)
NumSessions  == 2   \* start_streaming calls on the one instance
StreamChunks == 2   \* chunks of the text of each request
QueueMaxSize == 1   \* queue.Queue(maxsize=10), scaled down
MaxStops     == 1   \* stop_streaming calls

Sessions == 1 .. NumSessions
ChunkOrdinals == 1 .. StreamChunks

\* the audio array of chunk ordinal of the request of session s
ChunkAudio(s, ordinal) == [session |-> s, ordinal |-> ordinal]

\* Queue.full()
QueueFull == Len(playback_queue) >= QueueMaxSize

\* the file of a request before anything is written to it
NoFile == [written |-> FALSE, audio |-> <<>>]

\* if output_file and all_audio: sf.write(output_file, np.concatenate(all_audio), ...):
\* the file of session s once the worker has left its loop
Saved(s) ==
    [saved_file EXCEPT ![s] = IF output_file[s] /\ all_audio[s] # <<>>
                              THEN [written |-> TRUE, audio |-> all_audio[s]]
                              ELSE @]

InitPlayback ==
    /\ is_streaming = FALSE
    /\ playback_queue = <<>>
    /\ worker_pc = [s \in Sessions |-> "unstarted"]
    /\ worker_chunk = [s \in Sessions |-> None]
    /\ all_audio = [s \in Sessions |-> <<>>]
    /\ jobs = [s \in Sessions |-> [ordinal \in ChunkOrdinals |-> "unsubmitted"]]
    /\ consumer_pc = [s \in Sessions |-> "idle"]
    /\ received = [s \in Sessions |-> <<>>]
    /\ stops = 0
    /\ after_stop = [s \in Sessions |-> 0]
    /\ output_file = [s \in Sessions |-> TRUE]    \* every request names an output file
    /\ saved_file = [s \in Sessions |-> NoFile]

\* start_streaming: stream_thread.start(); return stream_thread
StartStreaming(s) ==
    /\ worker_pc[s] = "unstarted"
    /\ worker_pc' = [worker_pc EXCEPT ![s] = "set"]
    /\ UNCHANGED <<is_streaming, playback_queue, worker_chunk, all_audio, jobs,
                   consumer_pc, received, stops, after_stop>>
    /\ UNCHANGED <<output_file, saved_file>>

\* streaming_worker: self.is_streaming.set(); all_audio = []
WorkerSet(s) ==
    /\ worker_pc[s] = "set"
    /\ is_streaming' = TRUE
    /\ worker_pc' = [worker_pc EXCEPT ![s] = "next"]
    /\ UNCHANGED <<playback_queue, worker_chunk, all_audio, jobs,
                   consumer_pc, received, stops, after_stop>>
    /\ UNCHANGED <<output_file, saved_file>>

\* the worker resumes generate_streaming, which submits the job of its next
\* chunk: future = self.executor.submit(self.generate_fast, chunk, ...)
WorkerSubmit(s) ==
    /\ worker_pc[s] = "next"
    /\ \E ordinal \in ChunkOrdinals :
        /\ jobs[s][ordinal] = "unsubmitted"
        /\ \A before \in 1 .. ordinal - 1 : jobs[s][before] # "unsubmitted"
        /\ jobs' = [jobs EXCEPT ![s][ordinal] = "queued"]
    /\ UNCHANGED <<is_streaming, playback_queue, worker_pc, worker_chunk, all_audio,
                   consumer_pc, received, stops, after_stop>>
    /\ UNCHANGED <<output_file, saved_file>>

\* a thread of the pool runs a submitted job to its end, whatever the worker
\* that submitted it is doing
PoolRun(s, ordinal) ==
    /\ jobs[s][ordinal] = "queued"
    /\ jobs' = [jobs EXCEPT ![s][ordinal] = "done"]
    /\ UNCHANGED <<is_streaming, playback_queue, worker_pc, worker_chunk, all_audio,
                   consumer_pc, received, stops, after_stop>>
    /\ UNCHANGED <<output_file, saved_file>>

\* for audio_chunk in self.engine.generate_streaming(...): the generator
\* yields the result of a future that is done
WorkerNextChunk(s, ordinal) ==
    /\ worker_pc[s] = "next"
    /\ jobs[s][ordinal] = "done"
    /\ jobs' = [jobs EXCEPT ![s][ordinal] = "yielded"]
    /\ worker_chunk' = [worker_chunk EXCEPT ![s] = ChunkAudio(s, ordinal)]
    /\ worker_pc' = [worker_pc EXCEPT ![s] = "check"]
    /\ UNCHANGED <<is_streaming, playback_queue, all_audio,
                   consumer_pc, received, stops, after_stop>>
    /\ UNCHANGED <<output_file, saved_file>>

\* if not self.is_streaming.is_set(): break, and then the file is saved
WorkerCheck(s) ==
    /\ worker_pc[s] = "check"
    /\ worker_pc' = [worker_pc EXCEPT ![s] = IF is_streaming THEN "put" ELSE "finally"]
    /\ UNCHANGED <<is_streaming, playback_queue, worker_chunk, all_audio, jobs,
                   consumer_pc, received, stops, after_stop>>
    /\ saved_file' = IF is_streaming THEN saved_file ELSE Saved(s)
    /\ UNCHANGED output_file

\* self.playback_queue.put(audio_chunk, timeout=1.0); all_audio.append(audio_chunk)
WorkerPut(s) ==
    /\ worker_pc[s] = "put"
    /\ ~QueueFull
    /\ playback_queue' = Append(playback_queue, worker_chunk[s])
    /\ all_audio' = [all_audio EXCEPT ![s] = Append(@, worker_chunk[s])]
    /\ after_stop' = [after_stop EXCEPT ![s] = IF stops > 0 THEN @ + 1 ELSE @]
    /\ worker_chunk' = [worker_chunk EXCEPT ![s] = None]
    /\ worker_pc' = [worker_pc EXCEPT ![s] = "next"]
    /\ UNCHANGED <<is_streaming, jobs, consumer_pc, received, stops>>
    /\ UNCHANGED <<output_file, saved_file>>

\* except queue.Full: logger.warning("Playback queue full, dropping audio chunk")
WorkerPutTimeout(s) ==
    /\ worker_pc[s] = "put"
    /\ QueueFull
    /\ worker_chunk' = [worker_chunk EXCEPT ![s] = None]
    /\ worker_pc' = [worker_pc EXCEPT ![s] = "next"]
    /\ UNCHANGED <<is_streaming, playback_queue, all_audio, jobs,
                   consumer_pc, received, stops, after_stop>>
    /\ UNCHANGED <<output_file, saved_file>>

\* generate_streaming returns: every chunk was submitted and yielded; the
\* loop ends and the file is saved
WorkerExhausted(s) ==
    /\ worker_pc[s] = "next"
    /\ \A ordinal \in ChunkOrdinals : jobs[s][ordinal] = "yielded"
    /\ worker_pc' = [worker_pc EXCEPT ![s] = "finally"]
    /\ UNCHANGED <<is_streaming, playback_queue, worker_chunk, all_audio, jobs,
                   consumer_pc, received, stops, after_stop>>
    /\ saved_file' = Saved(s)
    /\ UNCHANGED output_file

\* finally: self.is_streaming.clear()
WorkerClear(s) ==
    /\ worker_pc[s] = "finally"
    /\ is_streaming' = FALSE
    /\ worker_chunk' = [worker_chunk EXCEPT ![s] = None]
    /\ worker_pc' = [worker_pc EXCEPT ![s] = "put_end"]
    /\ UNCHANGED <<playback_queue, all_audio, jobs,
                   consumer_pc, received, stops, after_stop>>
    /\ UNCHANGED <<output_file, saved_file>>

\* finally: self.playback_queue.put(None), a put without a timeout: it
\* returns once the queue has a free slot
WorkerPutEnd(s) ==
    /\ worker_pc[s] = "put_end"
    /\ ~QueueFull
    /\ playback_queue' = Append(playback_queue, None)
    /\ worker_pc' = [worker_pc EXCEPT ![s] = "done"]
    /\ UNCHANGED <<is_streaming, worker_chunk, all_audio, jobs,
                   consumer_pc, received, stops, after_stop>>
    /\ UNCHANGED <<output_file, saved_file>>

\* stop_streaming: self.is_streaming.clear()
StopStreaming ==
    /\ stops < MaxStops
    /\ \E s \in Sessions : worker_pc[s] \notin {"unstarted", "absent"}
    /\ is_streaming' = FALSE
    /\ stops' = stops + 1
    /\ after_stop' = [s \in Sessions |-> 0]
    /\ UNCHANGED <<playback_queue, worker_pc, worker_chunk, all_audio, jobs,
                   consumer_pc, received>>
    /\ UNCHANGED <<output_file, saved_file>>

\* the consumer of request c starts iterating get_audio_chunks()
GetAudioChunks(c) ==
    /\ consumer_pc[c] = "idle"
    /\ consumer_pc' = [consumer_pc EXCEPT ![c] = "get"]
    /\ UNCHANGED <<is_streaming, playback_queue, worker_pc, worker_chunk, all_audio, jobs,
                   received, stops, after_stop>>
    /\ UNCHANGED <<output_file, saved_file>>

\* chunk = self.playback_queue.get(timeout=1.0); if chunk is None: break;
\* yield chunk
ConsumerGet(c) ==
    /\ consumer_pc[c] = "get"
    /\ playback_queue # <<>>
    /\ playback_queue' = Tail(playback_queue)
    /\ IF Head(playback_queue) = None
       THEN consumer_pc' = [consumer_pc EXCEPT ![c] = "done"] /\ UNCHANGED received
       ELSE received' = [received EXCEPT ![c] = Append(@, Head(playback_queue))]
            /\ UNCHANGED consumer_pc
    /\ UNCHANGED <<is_streaming, worker_pc, worker_chunk, all_audio, jobs, stops, after_stop>>
    /\ UNCHANGED <<output_file, saved_file>>

\* except queue.Empty: the queue stayed empty for the whole timeout
ConsumerEmpty(c) ==
    /\ consumer_pc[c] = "get"
    /\ playback_queue = <<>>
    /\ consumer_pc' = [consumer_pc EXCEPT ![c] = "empty"]
    /\ UNCHANGED <<is_streaming, playback_queue, worker_pc, worker_chunk, all_audio, jobs,
                   received, stops, after_stop>>
    /\ UNCHANGED <<output_file, saved_file>>

\* if not self.is_streaming.is_set(): break; continue
ConsumerCheck(c) ==
    /\ consumer_pc[c] = "empty"
    /\ consumer_pc' = [consumer_pc EXCEPT ![c] = IF is_streaming THEN "get" ELSE "done"]
    /\ UNCHANGED <<is_streaming, playback_queue, worker_pc, worker_chunk, all_audio, jobs,
                   received, stops, after_stop>>
    /\ UNCHANGED <<output_file, saved_file>>

UnchangedByPlayback ==
    UNCHANGED <<bufVars, callVars, wavVars, monVars, qualityVars, profVars, lockVars, engineVars, genVars, batchVars, clockVars, aliasVars,
                repeatVars, argVars, chunkerVars>>

InitStreamingTTS ==
    /\ InitPlayback
    /\ InitIdleBuffer /\ InitIdleEngine /\ InitIdleGen /\ InitIdleBatch
    /\ InitClock /\ InitHeap /\ InitRepeat /\ InitArgs /\ InitIdleChunker /\ InitIdleRest
NextStreamingTTS ==
    \/ \E s \in Sessions : StartStreaming(s) /\ UnchangedByPlayback
    \/ \E s \in Sessions : WorkerSet(s) /\ UnchangedByPlayback
    \/ \E s \in Sessions : WorkerSubmit(s) /\ UnchangedByPlayback
    \/ \E s \in Sessions, ordinal \in ChunkOrdinals : PoolRun(s, ordinal) /\ UnchangedByPlayback
    \/ \E s \in Sessions, ordinal \in ChunkOrdinals : WorkerNextChunk(s, ordinal) /\ UnchangedByPlayback
    \/ \E s \in Sessions : WorkerCheck(s) /\ UnchangedByPlayback
    \/ \E s \in Sessions : WorkerPut(s) /\ UnchangedByPlayback
    \/ \E s \in Sessions : WorkerPutTimeout(s) /\ UnchangedByPlayback
    \/ \E s \in Sessions : WorkerExhausted(s) /\ UnchangedByPlayback
    \/ \E s \in Sessions : WorkerClear(s) /\ UnchangedByPlayback
    \/ \E s \in Sessions : WorkerPutEnd(s) /\ UnchangedByPlayback
    \/ StopStreaming /\ UnchangedByPlayback
    \/ \E c \in Sessions : GetAudioChunks(c) /\ UnchangedByPlayback
    \/ \E c \in Sessions : ConsumerGet(c) /\ UnchangedByPlayback
    \/ \E c \in Sessions : ConsumerEmpty(c) /\ UnchangedByPlayback
    \/ \E c \in Sessions : ConsumerCheck(c) /\ UnchangedByPlayback
SpecStreamingTTS == InitStreamingTTS /\ [][NextStreamingTTS]_vars

\* one request only: start_streaming and get_audio_chunks are called for
\* session 1, never for another
InitOneSession ==
    /\ is_streaming = FALSE
    /\ playback_queue = <<>>
    /\ worker_pc = [s \in Sessions |-> IF s = 1 THEN "unstarted" ELSE "absent"]
    /\ worker_chunk = [s \in Sessions |-> None]
    /\ all_audio = [s \in Sessions |-> <<>>]
    /\ jobs = [s \in Sessions |-> [ordinal \in ChunkOrdinals |-> "unsubmitted"]]
    /\ consumer_pc = [s \in Sessions |-> IF s = 1 THEN "idle" ELSE "absent"]
    /\ received = [s \in Sessions |-> <<>>]
    /\ stops = 0
    /\ after_stop = [s \in Sessions |-> 0]
    /\ \E named \in BOOLEAN : output_file = [s \in Sessions |-> s = 1 /\ named]
    /\ saved_file = [s \in Sessions |-> NoFile]
    /\ InitIdleBuffer /\ InitIdleEngine /\ InitIdleGen /\ InitIdleBatch
    /\ InitClock /\ InitHeap /\ InitRepeat /\ InitArgs /\ InitIdleChunker /\ InitIdleRest
SpecOneSession == InitOneSession /\ [][NextStreamingTTS]_vars

\* one request whose caller iterates get_audio_chunks only after it has called
\* start_streaming
NextFollowed ==
    /\ NextStreamingTTS
    /\ \A c \in Sessions :
         (consumer_pc[c] = "idle" /\ consumer_pc'[c] = "get") => worker_pc[c] # "unstarted"
SpecFollowed == InitOneSession /\ [][NextFollowed]_vars

(***************************************************************************)
(* generate_fast with its locks: self._cache_lock around the cache check   *)
(* and around the store, the profiler's self._lock inside start_timing and *)
(* end_timing; taking a lock and the block under it are separate steps     *)
(***************************************************************************)
MaxLockCalls == 2   \* generate_fast calls made in one run

\* the value of a lock that thread t has acquired
Holder(t) == [owner |-> t]

InitLocks == cache_lock = None /\ profiler_lock = None

UnchangedByLocks ==
    UNCHANGED <<bufVars, callVars, wavVars, monVars, genVars, batchVars, clockVars, aliasVars, repeatVars, argVars,
                chunkerVars, playVars, profVars, qualityVars>>

\* thread t calls generate_fast(text, voice, speed, use_cache)
LockedCall(t) ==
    /\ fast_pc[t] = "idle"
    /\ calls_made < MaxLockCalls
    /\ calls_made' = calls_made + 1
    /\ \E req \in ClientRequests : fast_req' = [fast_req EXCEPT ![t] = req]
    /\ fast_pc' = [fast_pc EXCEPT ![t] = "queued"]
    /\ UNCHANGED <<audio_cache, active_timers, timings, fast_audio, fast_ret, lockVars>>
    /\ UnchangedByLocks

\* with self._lock: in start_timing, and in the end_timing that follows the store
AcquireProfilerLock(t) ==
    /\ fast_pc[t] \in {"queued", "end"}
    /\ profiler_lock = None
    /\ profiler_lock' = Holder(t)
    /\ UNCHANGED <<engineVars, cache_lock>>
    /\ UnchangedByLocks

\* start_timing's block, and the lock released
LockedBegin(t) ==
    /\ fast_pc[t] = "queued"
    /\ profiler_lock = Holder(t)
    /\ fast_begin(t, fast_req[t])
    /\ profiler_lock' = None
    /\ UNCHANGED <<calls_made, cache_lock>>
    /\ UnchangedByLocks

\* with self._cache_lock: before the cache check and before the store
AcquireCacheLock(t) ==
    /\ fast_pc[t] \in {"lookup", "store"}
    /\ cache_lock = None
    /\ cache_lock' = Holder(t)
    /\ UNCHANGED <<engineVars, profiler_lock>>
    /\ UnchangedByLocks

\* as LockedLookup, with the render call inside the with block: a miss keeps
\* the lock
LockedLookup_render_inside(t) ==
    /\ cache_lock = Holder(t)
    /\ CacheHas(audio_cache, CacheKey(fast_req[t])) => profiler_lock = None
    /\ fast_lookup(t)
    /\ cache_lock' = IF CacheHas(audio_cache, CacheKey(fast_req[t])) THEN None ELSE cache_lock
    /\ UNCHANGED <<calls_made, profiler_lock>>
    /\ UnchangedByLocks

\* the block of the cache check: on a hit end_timing, which takes and releases
\* the profiler's lock under the cache lock, and the return; the with block is
\* left either way
LockedLookup(t) ==
    /\ cache_lock = Holder(t)
    /\ CacheHas(audio_cache, CacheKey(fast_req[t])) => profiler_lock = None
    /\ fast_lookup(t)
    /\ cache_lock' = None
    /\ UNCHANGED <<calls_made, profiler_lock>>
    /\ UnchangedByLocks

\* base_model.generate returns, or raises
LockedRender(t) ==
    /\ fast_render(t)
    /\ UNCHANGED <<calls_made, lockVars>>
    /\ UnchangedByLocks
LockedRenderRaises(t) ==
    /\ fast_render_raises(t)
    /\ UNCHANGED <<calls_made, lockVars>>
    /\ UnchangedByLocks

\* the block of the store, and the lock released
LockedStore(t) ==
    /\ cache_lock = Holder(t)
    /\ fast_store(t)
    /\ cache_lock' = None
    /\ UNCHANGED <<calls_made, profiler_lock>>
    /\ UnchangedByLocks

\* end_timing's block and the lock released; return audio
LockedEnd(t) ==
    /\ profiler_lock = Holder(t)
    /\ fast_end(t)
    /\ profiler_lock' = None
    /\ UNCHANGED <<calls_made, cache_lock>>
    /\ UnchangedByLocks

InitLocked ==
    /\ InitIdleBuffer /\ InitEngine(Callers) /\ InitIdleGen /\ InitIdleBatch
    /\ InitClock /\ InitHeap /\ InitRepeat /\ InitArgs /\ InitIdleChunker /\ InitIdlePlayback
    /\ InitLocks /\ InitIdleProfiler /\ InitIdleQuality /\ InitIdleMonitor /\ InitIdleWav /\ InitIdleCalls
NextLocked ==
    \/ \E t \in Callers : LockedCall(t)
    \/ \E t \in Callers : AcquireProfilerLock(t)
    \/ \E t \in Callers : LockedBegin(t)
    \/ \E t \in Callers : AcquireCacheLock(t)
    \/ \E t \in Callers : LockedLookup(t)
    \/ \E t \in Callers : LockedRender(t)
    \/ \E t \in Callers : LockedRenderRaises(t)
    \/ \E t \in Callers : LockedStore(t)
    \/ \E t \in Callers : LockedEnd(t)
    \/ \E t \in Callers : FastReturn(t)
SpecLocked == InitLocked /\ [][NextLocked]_vars

(***************************************************************************)
(* PerformanceProfiler (utils.py) with its durations: time.time() is       *)
(* profiler_time, _active_timers maps the names with a running timer to    *)
(* their start time, _timings maps every name to its deque of durations    *)
(***************************************************************************)
MaxSamples      == 2   \* largest max_samples a profiler is constructed with
MaxProfilerTime == 2   \* time.time() runs from 0 to MaxProfilerTime
MaxRecorded     == 3   \* durations appended in one run, all names together

RECURSIVE SumLen(_, _)
\* the number of durations in the sequences f[op], op in ops
SumLen(f, ops) ==
    IF ops = {} THEN 0
    ELSE LET op == CHOOSE o \in ops : TRUE
         IN  Len(f[op]) + SumLen(f, ops \ {op})

\* PerformanceProfiler(max_samples)
InitTimedProfiler ==
    /\ profiler_max_samples \in 0 .. MaxSamples
    /\ profiler_active_timers = <<>>
    /\ profiler_timings = [op \in Operations |-> <<>>]
    /\ profiler_time = 0
    /\ profiler_recorded = [op \in Operations |-> <<>>]

UnchangedByProfiler ==
    UNCHANGED <<bufVars, callVars, wavVars, monVars, engineVars, genVars, batchVars, clockVars, aliasVars, repeatVars,
                argVars, chunkerVars, playVars, lockVars, qualityVars>>

\* time passes
ProfilerTick ==
    /\ profiler_time < MaxProfilerTime
    /\ profiler_time' = profiler_time + 1
    /\ UNCHANGED <<profiler_max_samples, profiler_active_timers, profiler_timings,
                   profiler_recorded>>

\* start_timing: self._active_timers[operation] = time.time()
ProfilerStartTiming(operation) ==
    /\ profiler_active_timers' =
           [op \in DOMAIN profiler_active_timers \cup {operation} |->
                IF op = operation THEN profiler_time ELSE profiler_active_timers[op]]
    /\ UNCHANGED <<profiler_max_samples, profiler_timings, profiler_time, profiler_recorded>>

\* as ProfilerEndTiming, without the popleft at the cap
ProfilerEndTiming_keeps_all(operation) ==
    /\ operation \in DOMAIN profiler_active_timers
    /\ SumLen(profiler_recorded, Operations) < MaxRecorded
    /\ LET duration == profiler_time - profiler_active_timers[operation]
       IN  /\ profiler_timings' = [profiler_timings EXCEPT ![operation] = Append(@, duration)]
           /\ profiler_recorded' = [profiler_recorded EXCEPT ![operation] = Append(@, duration)]
    /\ profiler_active_timers' =
           [op \in DOMAIN profiler_active_timers \ {operation} |-> profiler_active_timers[op]]
    /\ UNCHANGED <<profiler_max_samples, profiler_time>>

\* end_timing with a timer of that name: pop the timer; popleft when the deque
\* has max_samples durations (on an empty deque, when max_samples is 0, popleft
\* raises IndexError and nothing is appended); append the duration
ProfilerEndTiming(operation) ==
    /\ operation \in DOMAIN profiler_active_timers
    /\ SumLen(profiler_recorded, Operations) < MaxRecorded
    /\ LET duration == profiler_time - profiler_active_timers[operation]
           times == profiler_timings[operation]
       IN  IF Len(times) >= profiler_max_samples
           THEN IF times = <<>>
                THEN UNCHANGED <<profiler_timings, profiler_recorded>>
                ELSE /\ profiler_timings' =
                            [profiler_timings EXCEPT ![operation] = Append(Tail(times), duration)]
                     /\ profiler_recorded' =
                            [profiler_recorded EXCEPT ![operation] = Append(@, duration)]
           ELSE /\ profiler_timings' = [profiler_timings EXCEPT ![operation] = Append(times, duration)]
                /\ profiler_recorded' = [profiler_recorded EXCEPT ![operation] = Append(@, duration)]
    /\ profiler_active_timers' =
           [op \in DOMAIN profiler_active_timers \ {operation} |-> profiler_active_timers[op]]
    /\ UNCHANGED <<profiler_max_samples, profiler_time>>

InitProfiled ==
    /\ InitTimedProfiler
    /\ InitIdleBuffer /\ InitIdleEngine /\ InitIdleGen /\ InitIdleBatch
    /\ InitClock /\ InitHeap /\ InitRepeat /\ InitArgs /\ InitIdleChunker /\ InitIdlePlayback
    /\ InitIdleLocks /\ InitIdleQuality /\ InitIdleMonitor /\ InitIdleWav /\ InitIdleCalls
NextProfiled ==
    \/ ProfilerTick /\ UnchangedByProfiler
    \/ \E operation \in Operations : ProfilerStartTiming(operation) /\ UnchangedByProfiler
    \/ \E operation \in Operations : ProfilerEndTiming(operation) /\ UnchangedByProfiler
SpecProfiled == InitProfiled /\ [][NextProfiled]_vars

(***************************************************************************)
(* The profiler with its counters, every call visible: profiler_call is    *)
(* the method and the name of the call made last, or the passing of time   *)
(***************************************************************************)
MaxCounter == 2   \* largest value of a counter in a run
Counters == {"requests"}

Call(op, name) == [op |-> op, name |-> name]

InitCalls ==
    /\ profiler_counters = [counter \in Counters |-> 0]      \* defaultdict(int)
    /\ profiler_call = Call("init", "")

\* end_timing without a timer of that name: the body of the if is skipped
ProfilerEndTimingNoTimer(operation) ==
    /\ operation \notin DOMAIN profiler_active_timers
    /\ UNCHANGED <<profiler_max_samples, profiler_active_timers, profiler_timings,
                   profiler_time, profiler_recorded>>

\* increment_counter: self._counters[counter] += value
increment_counter(counter, value) ==
    /\ profiler_counters[counter] + value <= MaxCounter
    /\ profiler_counters' = [profiler_counters EXCEPT ![counter] = @ + value]
    /\ profiler_call' = Call("increment_counter", counter)
    /\ UNCHANGED profVars

UnchangedByCalls ==
    UNCHANGED <<bufVars, wavVars, monVars, engineVars, genVars, batchVars, clockVars, aliasVars,
                repeatVars, argVars, chunkerVars, playVars, lockVars, qualityVars>>

InitFramed ==
    /\ InitTimedProfiler /\ InitCalls
    /\ InitIdleBuffer /\ InitIdleEngine /\ InitIdleGen /\ InitIdleBatch
    /\ InitClock /\ InitHeap /\ InitRepeat /\ InitArgs /\ InitIdleChunker /\ InitIdlePlayback
    /\ InitIdleLocks /\ InitIdleQuality /\ InitIdleMonitor /\ InitIdleWav
NextFramed ==
    \/ /\ ProfilerTick
       /\ profiler_call' = Call("time", "") /\ UNCHANGED profiler_counters /\ UnchangedByCalls
    \/ \E operation \in Operations :
         /\ ProfilerStartTiming(operation)
         /\ profiler_call' = Call("start_timing", operation)
         /\ UNCHANGED profiler_counters /\ UnchangedByCalls
    \/ \E operation \in Operations :
         /\ ProfilerEndTiming(operation)
         /\ profiler_call' = Call("end_timing", operation)
         /\ UNCHANGED profiler_counters /\ UnchangedByCalls
    \/ \E operation \in Operations :
         /\ ProfilerEndTimingNoTimer(operation)
         /\ profiler_call' = Call("end_timing", operation)
         /\ UNCHANGED profiler_counters /\ UnchangedByCalls
    \/ \E counter \in Counters, value \in 1 .. MaxCounter :
         increment_counter(counter, value) /\ UnchangedByCalls
SpecFramed == InitFramed /\ [][NextFramed]_vars

(***************************************************************************)
(* AdaptiveQualityManager, as demo_performance_monitoring (example_usage.py)*)
(* uses it.  The class itself is not among the sources: its operations are *)
(* modelled from the specification's contract; the loop that calls them is *)
(* modelled from the code.  Latencies are whole numbers of a time unit.    *)
(***************************************************************************)
MaxLatency  == 6   \* latencies 0 .. MaxLatency
HistorySize == 3   \* length of the bounded recent-latency history
test_texts  == 5   \* len(test_texts): the iterations of the demo loop

Latencies == 0 .. MaxLatency

\* target_latency=0.3, in units of 0.15 s
target_latency == 2
\* the edges target*(1+margin) and target*(1-margin) of the hysteresis band,
\* the margin being one half
UpperThreshold == target_latency + target_latency \div 2
LowerThreshold == target_latency - target_latency \div 2

\* QualityLevel, an ordered enum
QualityLevels == {"low", "medium", "high"}
Rank(level) == CASE level = "low" -> 0 [] level = "medium" -> 1 [] level = "high" -> 2
LevelOfRank(rank) == CHOOSE level \in QualityLevels : Rank(level) = rank

RECURSIVE Sum(_)
Sum(seq) == IF seq = <<>> THEN 0 ELSE Head(seq) + Sum(Tail(seq))

\* the mean of the recent latencies exceeds target*(1+margin)
MeanAbove(history) == history # <<>> /\ Sum(history) > UpperThreshold * Len(history)
\* the mean of the recent latencies is below target*(1-margin)
MeanBelow(history) == history # <<>> /\ Sum(history) < LowerThreshold * Len(history)
\* the history is long enough to trust the trend: the window is full
TrendTrusted(history) == Len(history) >= HistorySize

\* recordPerformance(latency): appends to the bounded recent-latency history
record_performance(history, latency) ==
    IF Len(history) >= HistorySize
    THEN Append(Tail(history), latency)
    ELSE Append(history, latency)

\* shouldAdjustQuality(): the mean deviates from the target beyond the band
should_adjust_quality(history) == MeanAbove(history) \/ MeanBelow(history)

\* as adjust_quality, but a step down goes straight to the lowest level
adjust_quality_jumps(level, history) ==
    IF MeanAbove(history) /\ Rank(level) > 0
    THEN "low"
    ELSE IF MeanBelow(history) /\ TrendTrusted(history) /\ Rank(level) < 2
    THEN LevelOfRank(Rank(level) + 1)
    ELSE level

\* as adjust_quality, but a step down also waits for a full history
adjust_quality_waits(level, history) ==
    IF MeanAbove(history) /\ TrendTrusted(history) /\ Rank(level) > 0
    THEN LevelOfRank(Rank(level) - 1)
    ELSE IF MeanBelow(history) /\ TrendTrusted(history) /\ Rank(level) < 2
    THEN LevelOfRank(Rank(level) + 1)
    ELSE level

\* adjustQuality(): one level down if the mean exceeds target*(1+margin) and a
\* lower level exists; one level up if the mean is below target*(1-margin),
\* the history is long enough and a higher level exists; otherwise unchanged
adjust_quality(level, history) ==
    IF MeanAbove(history) /\ Rank(level) > 0
    THEN LevelOfRank(Rank(level) - 1)
    ELSE IF MeanBelow(history) /\ TrendTrusted(history) /\ Rank(level) < 2
    THEN LevelOfRank(Rank(level) + 1)
    ELSE level

UnchangedByQuality ==
    UNCHANGED <<bufVars, callVars, wavVars, monVars, engineVars, genVars, batchVars, clockVars, aliasVars, repeatVars,
                argVars, chunkerVars, playVars, lockVars, profVars>>

\* quality_manager = AdaptiveQualityManager(target_latency=0.3, ...): the
\* level starts at High, the history empty
InitQuality ==
    /\ current_quality = "high"
    /\ latency_history = <<>>
    /\ demo_pc = "generate"
    /\ demo_runs = 0

\* one pass of the loop up to quality_manager.record_performance(latency):
\* the text is generated and its latency, one of latencies, is recorded
DemoRecord(latencies) ==
    /\ demo_pc = "generate"
    /\ demo_runs < test_texts
    /\ \E latency \in latencies :
           latency_history' = record_performance(latency_history, latency)
    /\ demo_runs' = demo_runs + 1
    /\ demo_pc' = "should_adjust"
    /\ UNCHANGED current_quality
    /\ UnchangedByQuality

\* if quality_manager.should_adjust_quality():
DemoShouldAdjust ==
    /\ demo_pc = "should_adjust"
    /\ demo_pc' = IF should_adjust_quality(latency_history) THEN "adjust" ELSE "generate"
    /\ UNCHANGED <<current_quality, latency_history, demo_runs>>
    /\ UnchangedByQuality

\* new_quality = quality_manager.adjust_quality()
DemoAdjust ==
    /\ demo_pc = "adjust"
    /\ current_quality' = adjust_quality(current_quality, latency_history)
    /\ demo_pc' = "generate"
    /\ UNCHANGED <<latency_history, demo_runs>>
    /\ UnchangedByQuality

InitDemo ==
    /\ InitQuality
    /\ InitIdleBuffer /\ InitIdleEngine /\ InitIdleGen /\ InitIdleBatch
    /\ InitClock /\ InitHeap /\ InitRepeat /\ InitArgs /\ InitIdleChunker /\ InitIdlePlayback
    /\ InitIdleLocks /\ InitIdleProfiler /\ InitIdleMonitor /\ InitIdleWav /\ InitIdleCalls
NextDemo == DemoRecord(Latencies) \/ DemoShouldAdjust \/ DemoAdjust
SpecDemo == InitDemo /\ [][NextDemo]_vars

\* every generation is slow: each latency is above target*(1+margin); the
\* caller's thread runs its loop to the end
SlowLatencies == {latency \in Latencies : latency > UpperThreshold}
NextSlow == DemoRecord(SlowLatencies) \/ DemoShouldAdjust \/ DemoAdjust
SpecSlow == InitDemo /\ [][NextSlow]_vars /\ WF_vars(NextSlow)

(***************************************************************************)
(* Properties of AudioBuffer (SpecBuffer)                                  *)
(***************************************************************************)

BufferInvariant ==
    /\ 0 <= available_samples /\ available_samples <= size
    /\ DOMAIN buffer = 0 .. size - 1
    /\ IF size > 0
       THEN write_pos = (read_pos + available_samples) % size
       ELSE write_pos = 0 /\ read_pos = 0
    /\ buf_op = "clear" => write_pos = 0 /\ read_pos = 0 /\ available_samples = 0
\* C6: after any sequence of write, read and clear calls the count stays within
\* 0 .. size, write_pos = (read_pos + available_samples) mod size, the storage
\* keeps its size, and clear() leaves both cursors and the count at zero.
C6_CursorInvariant == [] BufferInvariant /\ [][size' = size]_vars

\* the write cursor has wrapped behind the read cursor and the buffer is full
C6_Witness ==
    /\ buf_op = "write" /\ size >= 2
    /\ read_pos > 0 /\ write_pos = read_pos /\ available_samples = size

\* C7: reads never hand out more samples than writes accepted, and everything
\* read is, in order, a prefix of everything accepted; what is still held is
\* exactly the rest.
C7_Fifo ==
    /\ Len(delivered) <= Len(accepted)
    /\ IsPrefix(delivered, accepted)
    /\ accepted = delivered \o Content

\* a read that straddled the end of the storage, after a write that did
C7_Witness ==
    /\ buf_op = "read"
    /\ 0 < read_pos /\ read_pos < Len(read_ret)
    /\ Len(accepted) > size

WriteContract ==
    LET n == Min(Len(write_arg'), size - available_samples)
    IN  /\ write_ret' = n
        /\ available_samples' = available_samples + n
        /\ Content' = Content \o SubSeq(write_arg', 1, n)
        /\ read_pos' = read_pos
        /\ available_samples = size =>
               /\ write_ret' = 0
               /\ UNCHANGED <<buffer, write_pos, read_pos, available_samples>>
\* C8: write returns min(len(samples), size - available_samples), appends exactly
\* that many leading samples behind the unread ones, leaves every unread sample
\* and the read cursor alone, and on a full buffer returns 0 and changes nothing.
C8_WriteContract == [][buf_op' = "write" => WriteContract]_vars

\* an overflowing write that straddled the end of the storage: the tail was dropped
C8_Witness ==
    /\ buf_op = "write"
    /\ 0 < write_ret /\ write_ret < Len(write_arg)
    /\ 0 < write_pos /\ write_pos < write_ret

ReadContract ==
    LET n == Min(read_arg', available_samples)
    IN  IF read_arg' <= 0 \/ available_samples = 0
        THEN /\ read_ret' = <<>>
             /\ UNCHANGED <<buffer, write_pos, read_pos, available_samples>>
        ELSE /\ Len(read_ret') = n
             /\ read_ret' = SubSeq(Content, 1, n)
             /\ available_samples' = available_samples - n
             /\ Content' = SubSeq(Content, n + 1, available_samples)
             /\ write_pos' = write_pos
\* C9: read(n) returns the min(n, available_samples) oldest samples and removes
\* them; on an empty buffer or for n <= 0 it returns nothing and leaves the
\* cursors and the count unchanged.
C9_ReadContract == [][buf_op' = "read" => ReadContract]_vars

\* a short read: fewer samples were held than were asked for
C9_Witness ==
    /\ buf_op = "read"
    /\ 0 < Len(read_ret) /\ Len(read_ret) < read_arg
    /\ available_samples = 0 /\ read_pos > 0

(***************************************************************************)
(* Properties of generate_streaming (SpecStream)                           *)
(***************************************************************************)
YieldedOrdinals == {yielded[p].ordinal : p \in 1 .. Len(yielded)}
TimesYielded(i) == Cardinality({p \in 1 .. Len(yielded) : yielded[p].ordinal = i})

\* C1: with fewer workers than chunks, the chunks are yielded in increasing
\* ordinal order whatever order the jobs finish in: no chunk is yielded before
\* a chunk with a smaller ordinal.
C1_InOrderDelivery ==
    max_workers < NumChunks =>
        \A p, q \in 1 .. Len(yielded) : p < q => yielded[p].ordinal < yielded[q].ordinal

\* C2: when every render returns, the finished generator has yielded every
\* chunk exactly once, however long the renders took.
C2_EveryChunkOnce ==
    (gen_pc = "done" /\ \A i \in Ordinals : fast_pc[i] = "done")
        => \A i \in Ordinals : TimesYielded(i) = 1

\* C3: when a chunk's render raises, the finished generator has omitted that
\* chunk and yielded every other chunk.
C3_FailedChunkSkipped ==
    (/\ gen_pc = "done"
     /\ \A i \in Ordinals : FutureDone(i)
     /\ \E i \in Ordinals : fast_pc[i] = "raised")
        => YieldedOrdinals = {i \in Ordinals : fast_pc[i] = "done"}

(***************************************************************************)
(* Properties of the blocking calls (SpecBlocking)                         *)
(***************************************************************************)
BatchFailed == {i \in DOMAIN batch_job : batch_job[i].state = "failed"}

FastFailurePropagates ==
    /\ (fast_pc[Client] # "raised" /\ fast_pc'[Client] = "raised") =>
           /\ fast_ret'[Client] = None
           /\ audio_cache' = audio_cache
           /\ fast_req'[Client].use_cache
                  => ~CacheHas(audio_cache', CacheKey(fast_req'[Client]))
    /\ fast_pc'[Client] = "done" => fast_ret'[Client] # None
BatchFailurePropagates ==
    /\ (batch_pc # "raised" /\ batch_pc' = "raised") =>
           /\ batch_ret' = None
           /\ audio_cache' = audio_cache
    /\ batch_pc' = "returned" =>
           /\ BatchFailed' = {}
           /\ Len(batch_ret') = Len(texts)
    /\ (batch_pc' \in {"returned", "raised"} /\ BatchFailed' # {}) => batch_pc' = "raised"
\* C4: a render failure in generate_fast or generate_batch reaches the caller as
\* an exception: the call hands back no audio (generate_batch no partial list),
\* a call that returns returns its whole result, and the failed generate_fast
\* call leaves the audio cache as it was, without an entry for its key.
C4_BlockingFailurePropagates == [][FastFailurePropagates /\ BatchFailurePropagates]_vars

\* both blocking calls have failed: generate_batch after collecting a first
\* result, generate_fast with entries of other requests in the cache
C4_Witness ==
    /\ batch_pc = "raised" /\ batch_results # <<>> /\ batch_ret = None
    /\ fast_pc[Client] = "raised" /\ fast_req[Client].use_cache
    /\ Len(audio_cache) > 0

\* C5: generate_batch returns one result per text, and position i holds the
\* audio rendered for texts[i], whatever order the jobs finished in.
C5_BatchOrder ==
    batch_pc = "returned" =>
        /\ Len(batch_ret) = Len(texts)
        /\ \A i \in 1 .. Len(texts) : batch_ret[i] = Render(BatchRequest(texts[i]))

\* a batch of different texts has returned although a later job finished first
C5_Witness ==
    /\ batch_pc = "returned"
    /\ Len(texts) >= 2 /\ texts[1] # texts[2]
    /\ batch_order[1] # 1

(***************************************************************************)
(* Properties of the audio cache under concurrent calls (SpecCache)        *)
(***************************************************************************)

\* C10: whatever the interleaving of generate_fast calls and clear_cache calls,
\* the audio cache never holds more than its maximum number of entries.
C10_CacheBounded == Len(audio_cache) <= MaxCacheSize

\* the cache is full, a call has just stored the newest entry, and the entry that
\* another call stored before it is no longer there
C10_Witness ==
    /\ Len(audio_cache) = MaxCacheSize
    /\ \E t, u \in Callers :
         /\ t # u
         /\ fast_pc[t] = "end" /\ fast_req[t].use_cache
         /\ audio_cache[Len(audio_cache)].key = CacheKey(fast_req[t])
         /\ fast_pc[u] = "end" /\ fast_req[u].use_cache
         /\ ~CacheHas(audio_cache, CacheKey(fast_req[u]))

(***************************************************************************)
(* Eviction order of the audio cache (SpecCache)                           *)
(***************************************************************************)
\* the step in which thread t leaves the "Cache the result" block
StoreStep(t) == fast_pc[t] = "store" /\ fast_pc'[t] = "end"
\* the step in which thread t is served from the cache
HitStep(t) == fast_pc[t] = "lookup" /\ fast_pc'[t] = "done"

EvictsOldestOnly(t) ==
    LET key == CacheKey(fast_req[t])
    IN  (StoreStep(t) /\ Len(audio_cache) = MaxCacheSize /\ ~CacheHas(audio_cache, key)) =>
            /\ Len(audio_cache') = MaxCacheSize
            /\ \A i \in 1 .. MaxCacheSize - 1 : audio_cache'[i] = audio_cache[i + 1]
            /\ ~CacheHas(audio_cache', audio_cache[1].key)
            /\ audio_cache'[MaxCacheSize] = [key |-> key, audio |-> fast_audio[t]]
HitKeepsOrder(t) == HitStep(t) => audio_cache' = audio_cache
\* C11: storing the audio of a new key into a full cache evicts exactly one
\* entry, the one inserted first among those present, and puts the new entry
\* last; a cache hit leaves the cache, and so the eviction order, as it was.
C11_InsertionOrderEviction ==
    [][\A t \in DOMAIN fast_pc : EvictsOldestOnly(t) /\ HitKeepsOrder(t)]_vars

\* a call has just stored a new key into the full cache and the entry that was
\* inserted first, by a call that has since returned its audio, is the one missing
C11_Witness ==
    /\ Len(audio_cache) = MaxCacheSize
    /\ \E t, u \in Callers :
         /\ t # u
         /\ fast_pc[t] = "end"
         /\ audio_cache[MaxCacheSize] = [key |-> CacheKey(fast_req[t]), audio |-> fast_audio[t]]
         /\ fast_pc[u] = "done" /\ fast_audio[u] # None
         /\ ~CacheHas(audio_cache, CacheKey(fast_req[u]))
         /\ \A i \in 1 .. MaxCacheSize : audio_cache[i].key # CacheKey(fast_req[u])

(***************************************************************************)
(* Age of the entries the audio cache serves (SpecTtl)                     *)
(***************************************************************************)
Age(key) == now - stored_at[key]

\* C12: a lookup is served from the cache only if the entry is not older than
\* the TTL at that moment; a lookup that finds an older entry goes on to render
\* and removes the entry.
C12_TtlExpiry ==
    [][\A t \in DOMAIN fast_pc :
         LET key == CacheKey(fast_req[t])
         IN  /\ HitStep(t) => Age(key) <= TTL
             /\ (/\ fast_pc[t] = "lookup" /\ fast_pc'[t] # "lookup"
                 /\ CacheHas(audio_cache, key) /\ Age(key) > TTL)
                    => fast_pc'[t] = "render" /\ ~CacheHas(audio_cache', key)]_vars

(***************************************************************************)
(* Independence of the arrays generate_fast hands out (SpecAlias)          *)
(***************************************************************************)
\* the samples that a store under this key can have put into the cache
StoredFor(key) == {Render(req) : req \in {r \in Requests : CacheKey(r) = key}}

\* C13: whatever a caller writes into the arrays generate_fast returned to it,
\* on a hit or on a miss, the cached entries keep the samples that were stored
\* and a later hit returns exactly those samples.
C13_ReturnedAudioIndependent ==
    /\ \A i \in 1 .. Len(audio_cache) :
          /\ audio_cache[i].audio \notin held
          /\ Deref(audio_cache[i].audio) \in StoredFor(audio_cache[i].key)
    /\ \A t \in DOMAIN fast_pc :
          (fast_pc[t] = "done" /\ fast_audio[t] = None)
              => Deref(fast_ret[t]) \in StoredFor(CacheKey(fast_req[t]))

\* a hit has just returned the stored samples although the caller has written
\* into both arrays it was handed for this key before, one by the miss and one
\* by an earlier hit
C13_Witness ==
    /\ fast_pc[Client] = "done" /\ fast_audio[Client] = None
    /\ Deref(fast_ret[Client]) = Render(fast_req[Client])
    /\ Cardinality({ref \in held : Deref(ref) = Scribbled(Render(fast_req[Client]))}) >= 2

(***************************************************************************)
(* A request issued twice in sequence (SpecTwice)                          *)
(***************************************************************************)
AudioOf(ys) == [p \in 1 .. Len(ys) |-> ys[p].audio]

\* C14: when the same request is issued a second time after the first call
\* has finished, the second call makes no render call, every chunk being
\* served from the cache, and it returns the audio the first call returned.
C14_RepeatServedFromCache ==
    gen_round = 2 =>
        /\ \A i \in DOMAIN fast_pc : fast_pc[i] \notin {"render", "store", "end"}
        /\ gen_pc = "done" => AudioOf(yielded) = AudioOf(first_yielded)

(***************************************************************************)
(* What a cache hit returns (SpecCache)                                    *)
(***************************************************************************)
\* thread t has been served from the cache
ServedFromCache(t) == fast_pc[t] = "done" /\ fast_req[t].use_cache /\ fast_audio[t] = None

\* C15: a cache hit returns the audio of exactly the text, voice and speed that
\* were asked for: requests that differ in one of the three never share an entry.
C15_HitMatchesRequest ==
    \A t \in DOMAIN fast_pc : ServedFromCache(t) => fast_ret[t] = Render(fast_req[t])

(***************************************************************************)
(* Write-back before return (SpecCache)                                    *)
(***************************************************************************)
\* the step in which thread t returns audio it has rendered in this call
ReturnsFreshStep(t) ==
    fast_pc[t] # "done" /\ fast_pc'[t] = "done" /\ fast_req[t].use_cache /\ fast_audio[t] # None

\* C16 as stated: at the moment a cached generate_fast call returns freshly
\* rendered audio, the cache holds an entry for the key of that call.
C16_EntryPresentAtReturn ==
    [][\A t \in DOMAIN fast_pc :
         ReturnsFreshStep(t) => CacheHas(audio_cache, CacheKey(fast_req[t]))]_vars

\* C16: a cached generate_fast call returns freshly rendered audio only after
\* its own store, and that store left an entry for the call's key holding the
\* rendered audio.
C16_StoredBeforeReturned ==
    [][\A t \in DOMAIN fast_pc :
         LET key == CacheKey(fast_req[t])
         IN  /\ ReturnsFreshStep(t) => fast_pc[t] = "end"
             /\ (fast_pc[t] # "end" /\ fast_pc'[t] = "end" /\ fast_req[t].use_cache) =>
                    /\ fast_pc[t] = "store"
                    /\ CacheHas(audio_cache', key)
                    /\ CacheGet(audio_cache', key) = fast_audio[t]]_vars

\* a call has returned audio it rendered and stored, and clear_cache or the
\* stores of the other thread have since removed its entry
C16_Witness ==
    \E t \in Callers :
        /\ fast_pc[t] = "done" /\ fast_req[t].use_cache
        /\ fast_audio[t] # None /\ fast_ret[t] = fast_audio[t]
        /\ ~CacheHas(audio_cache, CacheKey(fast_req[t]))

(***************************************************************************)
(* Invalid input to generate_streaming (SpecInvalid)                       *)
(***************************************************************************)
\* C17: a request with an empty text, an unknown voice or a non-positive speed
\* fails at the call: no job is submitted to the pool, no render call is made
\* and the call neither yields audio nor ends as a normal, empty stream.
C17_InvalidInputFailsAtCall ==
    InvalidInput =>
        /\ \A i \in DOMAIN fast_pc : fast_pc[i] = "idle"
        /\ yielded = <<>>
        /\ gen_pc # "done"

(***************************************************************************)
(* Properties of the chunkers (SpecChunker)                                *)
(***************************************************************************)
Chunked == chunker_op \in {"chunk_text", "split_text_for_streaming"}
SingleWord(chunk) == \A i \in 1 .. Len(chunk) : chunk[i] \notin Whitespace

\* C18: no chunk returned by chunk_text or by _split_text_for_streaming is
\* longer than the maximum, except a chunk that is one single word.
C18_ChunkWithinMaximum ==
    Chunked =>
        \A i \in 1 .. Len(chunker_out) :
            Len(chunker_out[i]) <= input_max \/ SingleWord(chunker_out[i])

\* C19: whatever the text, the empty and the whitespace-only ones included,
\* neither chunker returns an empty segment.
C19_NoEmptySegment ==
    Chunked => \A i \in 1 .. Len(chunker_out) : chunker_out[i] # <<>>

\* C20: a text no longer than the maximum comes back from either chunker as
\* exactly one segment, the text unchanged.
C20_ShortTextUnchanged ==
    (Chunked /\ Len(input_text) <= input_max) => chunker_out = <<input_text>>

RECURSIVE JoinWithSpaces(_)
\* " ".join(segments)
JoinWithSpaces(segments) ==
    IF segments = <<>> THEN <<>>
    ELSE IF Len(segments) = 1 THEN Head(segments)
    ELSE Head(segments) \o <<" ">> \o JoinWithSpaces(Tail(segments))

\* C21: the segments of either chunker, joined with single spaces, have the
\* words of the input text: each word once, in the original order, none
\* dropped, duplicated or cut.
C21_JoinReproducesWords ==
    Chunked => str_split(JoinWithSpaces(chunker_out)) = str_split(input_text)

(***************************************************************************)
(* Properties of StreamingKittenTTS                                        *)
(***************************************************************************)
\* C22: no hand-off of the streaming worker waits without a timeout: with no
\* consumer ever started, the worker is never left waiting on the full
\* playback queue to hand off the end-of-stream signal.
C22_HandOffsTimeOut ==
    \A s \in Sessions :
        (worker_pc[s] = "put_end" /\ \A c \in Sessions : consumer_pc[c] \in {"idle", "absent"})
            => ~QueueFull

\* C23: once stop_streaming() has been called, the worker places at most one
\* further chunk on the playback queue.
C23_StopObservedBetweenChunks ==
    \A s \in Sessions : after_stop[s] <= 1

\* C24: with no stop_streaming() call, no worker leaves its loop over the
\* chunks at the test of the flag: what another session does never ends it
\* early.
C24_SessionsIndependent ==
    [][\A s \in Sessions :
        (worker_pc[s] = "check" /\ worker_pc'[s] = "finally") => stops > 0]_vars

(***************************************************************************)
(* Properties of the worker pool of generate_streaming                     *)
(***************************************************************************)
\* C25: never more than max_workers jobs of generate_streaming are being
\* executed, and every job that waits in the pool's queue is executed in the
\* end, to its return or to its exception.
C25_BoundedPoolEveryJobRuns ==
    /\ [](Cardinality(PoolRunning) <= max_workers)
    /\ \A i \in 0 .. MaxChunks - 1 :
        (i \in DOMAIN fast_pc /\ fast_pc[i] = "queued")
            ~> (i \in DOMAIN fast_pc /\ fast_pc[i] \in {"done", "raised"})

\* more chunks than workers: every pool thread is busy, one of them in the
\* render call, and a job waits
C25_Witness ==
    /\ NumChunks > max_workers
    /\ Cardinality(PoolRunning) = max_workers
    /\ \E i \in DOMAIN fast_pc : fast_pc[i] = "render"
    /\ \E i \in DOMAIN fast_pc : fast_pc[i] = "queued"

(***************************************************************************)
(* Properties of the locks of generate_fast                                *)
(***************************************************************************)
\* C26: a thread that is in the render call base_model.generate holds
\* neither the audio-cache lock nor the profiler lock.
C26_NoRenderUnderLock ==
    \A t \in DOMAIN fast_pc :
        fast_pc[t] = "render" => (cache_lock # Holder(t) /\ profiler_lock # Holder(t))

\* while one thread is in the render call, another holds the cache lock for
\* its own cache check or store
C26_Witness ==
    \E t \in DOMAIN fast_pc, u \in DOMAIN fast_pc :
        t # u /\ fast_pc[t] = "render" /\ cache_lock = Holder(u)

(***************************************************************************)
(* Properties of the profiler's duration history                           *)
(***************************************************************************)
\* the last n elements of seq, all of them when there are fewer
LastN(seq, n) == IF Len(seq) <= n THEN seq ELSE SubSeq(seq, Len(seq) - n + 1, Len(seq))

\* C27: the duration history of every operation name holds at most
\* max_samples entries, and they are the most recent durations recorded under
\* that name, in the order they were recorded.
C27_HistoryBounded ==
    \A op \in DOMAIN profiler_timings :
        /\ Len(profiler_timings[op]) <= profiler_max_samples
        /\ profiler_timings[op] = LastN(profiler_recorded[op], profiler_max_samples)

\* more durations were recorded under a name than the cap, the cap not being
\* zero: the oldest were dropped
C27_Witness ==
    \E op \in DOMAIN profiler_timings :
        /\ profiler_max_samples >= 1
        /\ Len(profiler_recorded[op]) > profiler_max_samples
        /\ profiler_timings[op] # <<>>
        /\ profiler_timings[op][1] # profiler_recorded[op][1]

(***************************************************************************)
(* Properties of the timers of the chunk jobs                              *)
(***************************************************************************)
\* C28: the chunk jobs of generate_streaming never share a timer: every
\* generate_fast call that has returned has recorded one duration sample
\* under "realtime_generation".
C28_OneSamplePerCall ==
    timings["realtime_generation"]
        = Cardinality({i \in DOMAIN fast_pc : fast_pc[i] = "done"})

(***************************************************************************)
(* Properties of the AdaptiveQualityManager                                *)
(***************************************************************************)
\* C29: when every recorded latency is above target*(1+margin),
\* should_adjust_quality() returns true, every adjust_quality() call lowers the
\* level by a step until the level is Low, Low is reached, and from then on
\* the level stays Low.
C29_SlowLowersToLow ==
    /\ [][demo_pc = "should_adjust" => demo_pc' = "adjust"]_vars
    /\ [][demo_pc = "adjust" =>
            IF current_quality = "low"
            THEN current_quality' = "low"
            ELSE Rank(current_quality') < Rank(current_quality)]_vars
    /\ [][current_quality = "low" => current_quality' = "low"]_vars
    /\ <>(current_quality = "low")

\* three slow generations: two adjust_quality() calls lowered the level to Low
\* and the third was made at Low
C29_Witness ==
    /\ current_quality = "low"
    /\ demo_pc = "generate"
    /\ demo_runs >= 3
    /\ \A i \in 1 .. Len(latency_history) : latency_history[i] > UpperThreshold

\* the mean of the recent latencies is inside the hysteresis band (or there is
\* no latency yet)
InsideBand(history) == ~MeanAbove(history) /\ ~MeanBelow(history)

\* C30: the level starts at High, is always one of Low, Medium, High, moves by
\* at most one step at a time, and does not move while the mean of the recent
\* latencies is inside the hysteresis band.
C30_OneStepAtATime ==
    /\ current_quality = "high"
    /\ [](current_quality \in QualityLevels)
    /\ [][/\ Rank(current_quality') - Rank(current_quality) <= 1
          /\ Rank(current_quality) - Rank(current_quality') <= 1]_vars
    /\ [][InsideBand(latency_history) => current_quality' = current_quality]_vars

\* adjust_quality() has just moved the level up, from Low to Medium: the mean
\* of a full history is below the band
C30_Witness ==
    /\ current_quality = "medium"
    /\ demo_pc = "generate"
    /\ TrendTrusted(latency_history)
    /\ MeanBelow(latency_history)

(***************************************************************************)
(* ResourceMonitor (utils.py).  One monitor; the calls start_monitoring    *)
(* and stop_monitoring in any order, and the background threads that       *)
(* start_monitoring creates.  A thread is the record of its number.        *)
(***************************************************************************)
MaxMonitorCalls == 4   \* calls of start_monitoring and stop_monitoring in a run
ResourceHistoryLen == 2   \* deque(maxlen=100), scaled
UsageSamples == 0 .. 1   \* the usage values a sample can hold

MonitorThread(n) == [thread |-> n]

\* ResourceMonitor.__init__: available is whether "import psutil" succeeds
InitResourceMonitor ==
    /\ available \in BOOLEAN
    /\ monitoring = FALSE /\ monitor_thread = None
    /\ resource_history = <<>> /\ monitor_loops = {}
    /\ monitor_op = "init" /\ monitor_calls = 0

UnchangedByMonitor ==
    UNCHANGED <<bufVars, callVars, wavVars, engineVars, genVars, batchVars, clockVars, aliasVars, repeatVars,
                argVars, chunkerVars, playVars, lockVars, profVars, qualityVars>>

\* as start_monitoring, without the test of self.available
start_monitoring_unchecked ==
    /\ monitor_calls < MaxMonitorCalls
    /\ monitor_calls' = monitor_calls + 1 /\ monitor_op' = "start_monitoring"
    /\ monitoring' = TRUE
    /\ monitor_thread' = MonitorThread(monitor_calls + 1)
    /\ monitor_loops' = monitor_loops \cup {MonitorThread(monitor_calls + 1)}
    /\ UNCHANGED <<available, resource_history>>

\* ResourceMonitor.start_monitoring
start_monitoring ==
    /\ monitor_calls < MaxMonitorCalls
    /\ monitor_calls' = monitor_calls + 1 /\ monitor_op' = "start_monitoring"
    /\ IF ~available
       THEN UNCHANGED <<monitoring, monitor_thread, monitor_loops>>     \* return
       ELSE /\ monitoring' = TRUE
            \* threading.Thread(target=self._monitor_loop, daemon=True); .start()
            /\ monitor_thread' = MonitorThread(monitor_calls + 1)
            /\ monitor_loops' = monitor_loops \cup {MonitorThread(monitor_calls + 1)}
    /\ UNCHANGED <<available, resource_history>>

\* ResourceMonitor.stop_monitoring: the flag is cleared; the join, made only when
\* a thread was created, returns when the thread has ended or after 2 seconds
stop_monitoring ==
    /\ monitor_calls < MaxMonitorCalls
    /\ monitor_calls' = monitor_calls + 1 /\ monitor_op' = "stop_monitoring"
    /\ monitoring' = FALSE
    /\ UNCHANGED <<available, monitor_thread, monitor_loops, resource_history>>

\* _monitor_loop, one round: while the flag is set, a sample is appended to the
\* bounded history, the oldest dropped
MonitorLoopSample(th) ==
    /\ th \in monitor_loops /\ monitoring
    /\ \E sample \in UsageSamples :
         resource_history' =
             IF Len(resource_history) < ResourceHistoryLen
             THEN Append(resource_history, sample)
             ELSE Append(Tail(resource_history), sample)
    /\ UNCHANGED <<available, monitoring, monitor_thread, monitor_loops, monitor_op, monitor_calls>>

\* _monitor_loop ends when it finds the flag cleared
MonitorLoopExit(th) ==
    /\ th \in monitor_loops /\ ~monitoring
    /\ monitor_loops' = monitor_loops \ {th}
    /\ UNCHANGED <<available, monitoring, monitor_thread, resource_history, monitor_op, monitor_calls>>

InitMonitor ==
    /\ InitResourceMonitor
    /\ InitIdleBuffer /\ InitIdleEngine /\ InitIdleGen /\ InitIdleBatch /\ InitClock
    /\ InitHeap /\ InitRepeat /\ InitArgs /\ InitIdleChunker /\ InitIdlePlayback
    /\ InitIdleLocks /\ InitIdleProfiler /\ InitIdleQuality /\ InitIdleWav /\ InitIdleCalls

NextMonitor ==
    \/ start_monitoring /\ UnchangedByMonitor
    \/ stop_monitoring /\ UnchangedByMonitor
    \/ \E th \in monitor_loops : MonitorLoopSample(th) /\ UnchangedByMonitor
    \/ \E th \in monitor_loops : MonitorLoopExit(th) /\ UnchangedByMonitor
SpecMonitor == InitMonitor /\ [][NextMonitor]_vars

(***************************************************************************)
(* The WAV encoder of the examples (final_example.py save_audio_wav,       *)
(* simple_example.py) and a stream that sends an audio chunk by chunk.     *)
(* A sample of the float audio is a number of halves (-2 is -1.0, 1 is     *)
(* 0.5); bytes are the numbers 0 .. 255.                                   *)
(***************************************************************************)
MaxWavLen == 2      \* samples of a chunk
MaxWavChunks == 2   \* chunks of an audio
LongSilence == 130   \* samples of a long silent chunk: its lengths need two bytes
sample_rate == 24000
AudioHalves == {-2, 0, 1}

Silence(n) == [i \in 1 .. n |-> 0]
AudioChunks == SeqsUpTo(AudioHalves, MaxWavLen)

RECURSIVE Concatenate(_)
\* np.concatenate(chunks)
Concatenate(cs) == IF cs = <<>> THEN <<>> ELSE Head(cs) \o Concatenate(Tail(cs))

\* np.int16(audio * 32767), one sample: the fraction is dropped, toward zero
Int16(half) ==
    IF half >= 0 THEN (half * 32767) \div 2 ELSE -((-half * 32767) \div 2)

\* int.to_bytes(length, 'little') raises OverflowError unless 0 <= value < 256^length
CanEncode(value, length) == value >= 0 /\ value \div (256 ^ (length - 1)) < 256

\* value.to_bytes(length, 'little')
to_bytes(value, length) == [i \in 1 .. length |-> (value \div (256 ^ (i - 1))) % 256]

\* int.from_bytes(bytes, 'little')
RECURSIVE from_bytes(_)
from_bytes(bytes) ==
    IF bytes = <<>> THEN 0 ELSE Head(bytes) + 256 * from_bytes(Tail(bytes))

\* audio_normalized.tobytes(): two bytes per sample, two's complement, low byte first
tobytes(samples) ==
    [i \in 1 .. 2 * Len(samples) |->
        LET v == samples[(i + 1) \div 2]
            u == IF v < 0 THEN v + 65536 ELSE v
        IN  IF i % 2 = 1 THEN u % 256 ELSE u \div 256]

RIFF == <<82, 73, 70, 70>>      \* b'RIFF'
WAVE == <<87, 65, 86, 69>>      \* b'WAVE'
FMT  == <<102, 109, 116, 32>>   \* b'fmt '
DATA == <<100, 97, 116, 97>>    \* b'data'

\* the fmt chunk: size 16, PCM, 1 channel, sample rate, byte rate, block align, bits
FmtChunk ==
    FMT \o to_bytes(16, 4) \o to_bytes(1, 2) \o to_bytes(1, 2)
        \o to_bytes(sample_rate, 4) \o to_bytes(sample_rate * 2, 4)
        \o to_bytes(2, 2) \o to_bytes(16, 2)

\* as WavHeader, with the number of samples in the data length field
WavHeader_sample_count(n) ==
    RIFF \o to_bytes(36 + n * 2, 4) \o WAVE \o FmtChunk \o DATA \o to_bytes(n, 4)

\* as WavHeader, with a fmt chunk that carries a two-byte extension size
WavHeader_extended(n) ==
    RIFF \o to_bytes(38 + n * 2, 4) \o WAVE \o FMT \o to_bytes(18, 4)
         \o SubSeq(FmtChunk, 9, 24) \o to_bytes(0, 2) \o DATA \o to_bytes(n * 2, 4)

\* everything save_audio_wav writes before the samples, for n samples
WavHeader(n) ==
    RIFF \o to_bytes(36 + n * 2, 4) \o WAVE \o FmtChunk \o DATA \o to_bytes(n * 2, 4)

\* the bytes of the file that save_audio_wav leaves for this audio: when a length
\* does not fit its field, to_bytes raises after b'RIFF' was written
EncodeWav(audio) ==
    LET audio_normalized == [i \in 1 .. Len(audio) |-> Int16(audio[i])]
        n == Len(audio_normalized)
    IN  IF CanEncode(36 + n * 2, 4) /\ CanEncode(n * 2, 4)
        THEN WavHeader(n) \o tobytes(audio_normalized)
        ELSE RIFF

\* the audios of SpecWav: up to MaxWavChunks short chunks, or a long silent chunk
\* between short ones
InitWav ==
    /\ wav_chunks \in SeqsUpTo(AudioChunks, MaxWavChunks)
                        \cup {<<c, Silence(LongSilence)>> : c \in AudioChunks}
                        \cup {<<Silence(LongSilence), c>> : c \in AudioChunks}
    /\ wav_file = <<>> /\ wav_ret = "not called"
    /\ wav_stream = <<>> /\ wav_sent = 0

\* save_audio_wav(audio, filename) on the whole audio; True unless a write raised
save_audio_wav ==
    /\ wav_ret = "not called"
    /\ LET audio == Concatenate(wav_chunks)
       IN  /\ wav_file' = EncodeWav(audio)
           /\ wav_ret' = IF CanEncode(36 + Len(audio) * 2, 4) /\ CanEncode(Len(audio) * 2, 4)
                         THEN "True" ELSE "False"
    /\ UNCHANGED <<wav_chunks, wav_stream, wav_sent>>

\* the stream sends the next chunk: the first chunk's encoded bytes whole, a
\* later chunk's encoded bytes without their first 44 bytes
StreamChunk ==
    /\ wav_sent < Len(wav_chunks)
    /\ LET encoded == EncodeWav(wav_chunks[wav_sent + 1])
       IN  wav_stream' = IF wav_sent = 0
                         THEN encoded
                         ELSE wav_stream \o SubSeq(encoded, 45, Len(encoded))
    /\ wav_sent' = wav_sent + 1
    /\ UNCHANGED <<wav_chunks, wav_file, wav_ret>>

UnchangedByWav ==
    UNCHANGED <<bufVars, callVars, engineVars, genVars, batchVars, clockVars, aliasVars, repeatVars,
                argVars, chunkerVars, playVars, lockVars, profVars, qualityVars, monVars>>

InitWavOnly ==
    /\ InitWav
    /\ InitIdleBuffer /\ InitIdleEngine /\ InitIdleGen /\ InitIdleBatch /\ InitClock
    /\ InitHeap /\ InitRepeat /\ InitArgs /\ InitIdleChunker /\ InitIdlePlayback
    /\ InitIdleLocks /\ InitIdleProfiler /\ InitIdleQuality /\ InitIdleMonitor /\ InitIdleCalls

NextWav ==
    \/ save_audio_wav /\ UnchangedByWav
    \/ StreamChunk /\ UnchangedByWav
SpecWav == InitWavOnly /\ [][NextWav]_vars

(***************************************************************************)
(* Overwriting an entry of the audio cache (SpecCache)                     *)
(***************************************************************************)
\* every key of the cache before the step is still a key after it
KeepsEveryKey ==
    \A i \in 1 .. Len(audio_cache) : CacheHas(audio_cache', audio_cache[i].key)

\* C34: a store under a key that is already present, or into a cache that is
\* not full, evicts no entry: only the insertion of a new key into a full
\* cache evicts. This includes the second store of two concurrent
\* generate_fast calls that both missed on the same key.
C34_OverwriteEvictsNothing ==
    [][\A t \in DOMAIN fast_pc :
         (/\ StoreStep(t)
          /\ \/ CacheHas(audio_cache, CacheKey(fast_req[t]))
             \/ Len(audio_cache) < MaxCacheSize) => KeepsEveryKey]_vars

(***************************************************************************)
(* The sliding window of generate_streaming (SpecStream)                   *)
(***************************************************************************)
\* C36: the chunks submitted to the pool and not yet yielded (the list
\* futures) never number more than max_workers.
C36_WindowBounded == Len(futures) <= max_workers

(***************************************************************************)
(* The timer of a generate_fast call that has ended (SpecBlocking)         *)
(***************************************************************************)
\* C40: when the client's generate_fast call has ended, by a cache hit, by a
\* render or by the exception of a failed render, no "realtime_generation"
\* timer is active in the profiler.
C40_NoTimerLeftBehind ==
    fast_pc[Client] \in {"done", "raised"} => "realtime_generation" \notin active_timers

(***************************************************************************)
(* The ResourceMonitor without psutil (SpecMonitor)                        *)
(***************************************************************************)
\* C31: when resource sampling is unavailable the monitor reports
\* available = false, no call starts a background thread or changes the
\* monitor's state (flag, thread, history), and stop_monitoring returns as
\* any other call does.
C31_UnavailableIsNoOp ==
    /\ [](~available =>
            /\ ~monitoring /\ monitor_thread = None /\ monitor_loops = {}
            /\ resource_history = <<>>)
    /\ [][~available =>
            UNCHANGED <<available, monitoring, monitor_thread, monitor_loops,
                        resource_history>>]_vars

\* without psutil, start_monitoring and then stop_monitoring have returned
C31_Witness ==
    /\ ~available /\ monitor_calls >= 2 /\ monitor_op = "stop_monitoring"

(***************************************************************************)
(* The WAV files and streams of SpecWav                                    *)
(***************************************************************************)
\* the two length fields of a header, and a header with both fields blanked
RiffLength(bytes) == from_bytes(SubSeq(bytes, 5, 8))
DataLength(bytes) == from_bytes(SubSeq(bytes, 41, 44))
WithoutLengths(bytes) ==
    [i \in 1 .. Len(bytes) |-> IF i \in 5 .. 8 \cup 41 .. 44 THEN 0 ELSE bytes[i]]

\* C32: the file a single-shot write leaves for n samples is a 44-byte header
\* and 2*n payload bytes; the header's data length is 2*n, the number of
\* payload bytes, and its RIFF length is 36 + 2*n, the file size less 8.
C32_DeclaredLengthsMatch ==
    wav_ret # "not called" =>
        LET n == Len(Concatenate(wav_chunks))
        IN  /\ wav_ret = "True"
            /\ Len(wav_file) = 44 + 2 * n
            /\ SubSeq(wav_file, 37, 40) = DATA
            /\ DataLength(wav_file) = 2 * n
            /\ DataLength(wav_file) = Len(wav_file) - 44
            /\ RiffLength(wav_file) = 36 + 2 * n
            /\ RiffLength(wav_file) = Len(wav_file) - 8

\* a file whose lengths need two bytes each has been written
C32_Witness ==
    /\ wav_ret = "True"
    /\ DataLength(wav_file) > 255
    /\ Len(wav_file) > 44 + LongSilence * 2

\* C33: when every chunk has been sent, the stream (the first chunk's
\* encoded bytes, then each later chunk's without its 44-byte header) and
\* the single-shot encoding of the concatenated chunks are the same bytes
\* apart from the two length fields of the header.
C33_StreamEqualsOneShot ==
    (wav_sent = Len(wav_chunks) /\ wav_sent > 0) =>
        WithoutLengths(wav_stream) = WithoutLengths(EncodeWav(Concatenate(wav_chunks)))

\* a stream of two chunks with samples has been sent, and its header declares
\* fewer bytes than it carries
C33_Witness ==
    /\ wav_sent = 2 /\ Len(wav_chunks) = 2
    /\ wav_chunks[1] # <<>> /\ wav_chunks[2] # <<>>
    /\ \E i \in 1 .. Len(wav_chunks[2]) : wav_chunks[2][i] # 0
    /\ DataLength(wav_stream) < Len(wav_stream) - 44

(***************************************************************************)
(* The file, the consumer and the queue of one streaming request           *)
(* (SpecFollowed)                                                          *)
(***************************************************************************)
\* every chunk of the request of session s, in the order of the text
EveryChunk(s) == [ordinal \in ChunkOrdinals |-> ChunkAudio(s, ordinal)]

\* C35: when a request that names an output file has left its loop and
\* stop_streaming was never called, the file holds every chunk of the text
\* in order, whether or not chunks were dropped from the playback queue.
C35_FileIsComplete ==
    (/\ output_file[1] /\ stops = 0
     /\ worker_pc[1] \in {"finally", "put_end", "done"}) =>
        /\ saved_file[1].written
        /\ saved_file[1].audio = EveryChunk(1)

\* C37: without a stop_streaming call, a consumer that has returned has
\* yielded every chunk the worker placed on the queue, in that order, and
\* the worker has finished.
C37_ConsumerGetsEveryChunk ==
    (consumer_pc[1] = "done" /\ stops = 0) =>
        /\ worker_pc[1] = "done"
        /\ received[1] = all_audio[1]

\* C38: when the worker of the request has finished and its consumer has
\* returned, the playback queue is empty.
C38_NothingLeftInQueue ==
    (worker_pc[1] = "done" /\ consumer_pc[1] = "done") => playback_queue = <<>>

(***************************************************************************)
(* What a call of the profiler changes (SpecFramed)                        *)
(***************************************************************************)
\* the timer of a name: absent, or its start time
TimerOf(timers, name) == IF name \in DOMAIN timers THEN <<timers[name]>> ELSE <<>>

\* C39: end_timing(name) with an active timer records one duration under
\* name and removes the timer; without one it changes no history, counter
\* or timer; start_timing(name) and end_timing(name) leave the timer and the
\* history of every other name as they were.
C39_EndTimingFrame ==
    [][\A name \in Operations :
         /\ (profiler_call' = Call("end_timing", name)
                /\ name \in DOMAIN profiler_active_timers) =>
              /\ name \notin DOMAIN profiler_active_timers'
              /\ profiler_recorded'[name] =
                     Append(profiler_recorded[name],
                            profiler_time - profiler_active_timers[name])
              /\ profiler_timings'[name] # <<>>
              /\ profiler_timings'[name][Len(profiler_timings'[name])] =
                     profiler_time - profiler_active_timers[name]
         /\ (profiler_call' = Call("end_timing", name)
                /\ name \notin DOMAIN profiler_active_timers) =>
              UNCHANGED <<profiler_timings, profiler_recorded, profiler_counters,
                          profiler_active_timers>>
         /\ profiler_call' \in {Call("start_timing", name), Call("end_timing", name)} =>
              /\ UNCHANGED profiler_counters
              /\ \A other \in Operations \ {name} :
                   /\ TimerOf(profiler_active_timers', other)
                          = TimerOf(profiler_active_timers, other)
                   /\ profiler_timings'[other] = profiler_timings[other]]_vars

====
